---- MODULE Spec2Model ----
(***************************************************************************)
(* Reminder evaluation and delivery engine of the to-do bot (src/bot.py):  *)
(* the document store (tasks, events), the slash commands that mutate it   *)
(* and the periodic sweep check_reminders.  Instants are whole seconds of  *)
(* UTC counted from the start of the run.                                   *)
(***************************************************************************)
EXTENDS Integers, Sequences, FiniteSets, TLC

\* ---------------------------------------------------------------- constants

\* config.py: REMINDER_THRESHOLDS = [72, 24, 5]
REMINDER_THRESHOLDS == <<72, 24, 5>>

\* seconds in one hour (target_seconds = th * 3600)
HourSeconds == 3600

\* the +/- 90 seconds firing window of the sweep
Tolerance == 90
\* IntervalTrigger(minutes=1), in seconds
TickInterval == 60

\* auto-delete when seconds_left < -86400
ExpirySeconds == 86400

\* ------------------------------------------------------------------- bounds

\* number of documents ever inserted (ObjectIds handed out)
MaxIds == 3

\* number of slash commands that change the store in one run
MaxCmds == 2

\* number of sweep ticks in one run
MaxTicks == 2

\* number of injected store / sink failures in one run
MaxFaults == 1

\* custom reminders kept on one task
MaxCustom == 3

\* the delivery counters saturate here
MaxEmit == 3
\* the longest lead of an item over the edge of a threshold window, in seconds
MaxLead == 60

\* ------------------------------------------------------------------- inputs

NoGuild == "none"
Users == {"u1"}
Guilds == {"g1"}
Scopes == Guilds \cup {NoGuild}

\* deadlines a user may type (already parsed to UTC seconds): a new item is
\* due 72h+45s after the start of the run, an edit may move it to 100h
FirstDeadline == 72 * HourSeconds + 45
LaterDeadline == 100 * HourSeconds
AddInputs == {FirstDeadline}
DeadlineInputs == {FirstDeadline, LaterDeadline}

\* end instants a user may type for an event
EndInputs == {FirstDeadline, LaterDeadline}

\* custom reminder instants a user may type: 24h before the first deadline,
\* and 30s after the instant at which the first deadline is 24h overdue
ReminderInputs == {FirstDeadline - 24 * HourSeconds, FirstDeadline + ExpirySeconds + 30}

\* what a user types for a date argument: a well-formed date (with the UTC
\* instant it denotes in the user's timezone), malformed text, or nothing
DateText(S) ==
  {[txt |-> "date", t |-> d] : d \in S} \cup {[txt |-> "bad", t |-> 0]}
NoText == [txt |-> "none", t |-> 0]

\* what the users argument of /assign mentions: nobody, or a second user
MentionInputs == {{}, {"u2"}}

\* no arguments of /edit on record
NoArgs == [judul |-> "", dl |-> NoText, tag |-> ""]

\* no identifier resolution observed yet
NoRes ==
  [cmd |-> "none", user |-> "", guild |-> "", token |-> <<>>, view |-> <<>>, id |-> 0,
   shown |-> <<>>, args |-> NoArgs]

\* the weekly job has not run
NoWeekly ==
  [pc |-> "idle", ran |-> 0, start |-> 0, end |-> 0, groups |-> <<>>, g |-> 0,
   channels |-> {}, out |-> <<>>]

\* no duration is being rendered
NoRender == [pc |-> "none", delta |-> 0, text |-> [past |-> FALSE, parts |-> <<>>]]

\* no button was clicked
NoClick == [by |-> "", button |-> "", from |-> 0]

\* no paginated list is open
NoPager ==
  [pc |-> "none", kind |-> "", user_id |-> "", guild_id |-> "", tasks |-> <<>>,
   current_page |-> 0, total_pages |-> 1, prev_disabled |-> TRUE, next_disabled |-> TRUE,
   last |-> NoClick]

\* nothing is being converted
NoConv == [pc |-> "none", x |-> 0, tz |-> "", text |-> 0, back |-> 0]

\* durations a user may type for /setreminder: <amount><unit>, unit d, h or m
DurationInputs ==
  {[txt |-> "dur", t |-> 0, unit |-> "m"], [txt |-> "dur", t |-> 1, unit |-> "d"]}

Range(s) == {s[k] : k \in 1..Len(s)}

ThresholdSet == Range(REMINDER_THRESHOLDS)

\* instants at which the clock is observed: the edges and the inside of the
\* windows of the first deadline, the inside of those of the later one
ClockPoints ==
  LET around(c, offs) == {c + o : o \in offs}
  IN {t \in around(FirstDeadline - 72 * HourSeconds, {-15, 90, 91})
           \cup around(FirstDeadline - 24 * HourSeconds, {-91, -90, 90, 91})
           \cup around(FirstDeadline - 5 * HourSeconds, {-15})
           \cup around(FirstDeadline, {-1, 0})
           \cup around(FirstDeadline + ExpirySeconds, {0, 1})
           \cup around(LaterDeadline - 72 * HourSeconds, {-15})
           \cup around(LaterDeadline, {0})
           \cup around(LaterDeadline + ExpirySeconds, {1}) :
        t > 0}

\* ------------------------------------------------------------------- labels

\* label = f'rem_{th}h'
ThLabel(th) == "rem_" \o ToString(th) \o "h"
DueLabel == "rem_due"
StdLabels == {ThLabel(th) : th \in ThresholdSet} \cup {DueLabel}

VARIABLES
  clock,      \* datetime.now(UTC), in seconds
  tasks,      \* tasks_col: sequence of documents in insertion order
  events,     \* events_col
  nextId,     \* next ObjectId to hand out
  pc,         \* check_reminders: "idle", or the phase "tasks" / "events"
  now,        \* check_reminders: now, sampled when the tick starts
  rows,       \* check_reminders: the loaded documents of the current phase
  i,          \* check_reminders: index into rows
  budget,     \* failures the environment may still inject
  ticksLeft,  \* sweep ticks the run may still start
  cmdsLeft,   \* store-changing commands the run may still issue
  edits,      \* history: the tasks whose deadline was edited
  added,      \* history: the (task, fire time) pairs /setreminder reported as added
  emitted,    \* history: notifications handed to the sink, per item and label
  delivered,  \* history: messages that reached a channel, per item and label
  lastRes,    \* history: the last identifier resolution that was observed
  weekly,     \* send_weekly_summary: its position, window, groups and output
  conv,       \* a deadline on its way through the time normalizer
  render,     \* a duration on its way through human_delta
  pager,      \* a TaskListView: its owner, filter, tasks, page and buttons
  tickLog     \* history: what the current tick did, in order

vars == <<clock, tasks, events, nextId, pc, now, rows, i,
          budget, ticksLeft, cmdsLeft, edits, added, emitted, delivered, lastRes, weekly, conv, render, pager,
          tickLog>>

sweepVars == <<pc, now, rows, i>>

uiVars == <<render, pager>>

jobVars == <<weekly, conv, uiVars>>

\* -------------------------------------------------------------------- store

\* ObjectId rendered as text, str(doc['_id']): two hex digits here, the
\* first shared by consecutive ids so that a one-digit prefix can be ambiguous
HexDigits == <<"a", "b", "c", "d">>
IdStr(n) == <<HexDigits[(((n - 1) \div 2) % 4) + 1], HexDigits[((n - 1) % 2) + 1]>>

NotFound == 0

AllDocs(col) == col
\* collection.find({'status': False}) in natural (insertion) order
OpenDocs(col) == SelectSeq(col, LAMBDA d : d.status = FALSE)

\* tdoc['deadline'] / edoc['tanggal_mulai'] after ensure_aware_utc
DeadlineOf(d) == IF "deadline" \in DOMAIN d THEN d.deadline ELSE d.tanggal_mulai

HasDoc(col, id) == \E k \in 1..Len(col) : col[k]._id = id
DocOf(col, id) == col[CHOOSE k \in 1..Len(col) : col[k]._id = id]

\* update_one({'_id': id}, ..): the matched document becomes updated; no
\* document matched, nothing written
UpdateOne(col, id, updated) ==
  [k \in 1..Len(col) |-> IF col[k]._id = id THEN updated ELSE col[k]]

\* delete_one({'_id': id})
DeleteOne(col, id) == SelectSeq(col, LAMBDA d : d._id # id)

AddToSetAlone(seq, x) == <<x>>
\* {'$addToSet': {'reminders_sent': label}}
AddToSet(seq, x) == IF x \in Range(seq) THEN seq ELSE Append(seq, x)

MarkReminderSentNowhere(col, id, label) == col
\* mark_reminder_sent_async(task_id, label, collection)
MarkReminderSent(col, id, label) ==
  UpdateOne(col, id, [DocOf(col, id) EXCEPT !.reminders_sent = AddToSet(@, label)])

\* ----------------------------------------------------------------- resolver

StoredViews(seq) == {seq}

\* .sort('deadline', 1): every ascending order of the rows (the order of
\* equal deadlines is not fixed by the store)
SortedViews(seq) ==
  LET n == Len(seq)
      perms == {f \in [1..n -> 1..n] : \A a, b \in 1..n : a # b => f[a] # f[b]}
      asc == {f \in perms :
                \A k \in 1..(n - 1) : DeadlineOf(seq[f[k]]) <= DeadlineOf(seq[f[k + 1]])}
  IN {[k \in 1..n |-> seq[f[k]]] : f \in asc}

\* find({'user_id': .., 'guild_id': .., 'status': False})
OwnOpen(col, user, guild) ==
  SelectSeq(col, LAMBDA d : d.user_id = user /\ d.guild_id = guild /\ d.status = FALSE)

\* active_rows: the own open rows whose deadline is still in the future
ActiveRows(col, user, guild, t) ==
  SelectSeq(OwnOpen(col, user, guild), LAMBDA d : DeadlineOf(d) > t)

IsPrefix(p, s) == Len(p) <= Len(s) /\ \A k \in 1..Len(p) : p[k] = s[k]

\* ObjectId(identifier) accepts exactly the full-length hex text
IsObjectId(s) == Len(s) = Len(IdStr(1))

\* the rows whose str(_id) starts with the identifier, in cursor order
PrefixMatches(col, user, guild, s) ==
  SelectSeq(OwnOpen(col, user, guild), LAMBDA d : IsPrefix(s, IdStr(d._id)))

\* the identifier resolution shared by edit, done, doneevent, assign and
\* setreminder; view is the sorted active_rows the command fetched
Resolve(col, user, guild, token, view) ==
  IF token.t = "num"
  THEN IF 0 <= token.k - 1 /\ token.k - 1 < Len(view) THEN view[token.k]._id ELSE NotFound
  ELSE IF IsObjectId(token.s)
       THEN IF \E d \in Range(col) :
                  IdStr(d._id) = token.s /\ d.user_id = user /\ d.guild_id = guild
            THEN (CHOOSE d \in Range(col) : IdStr(d._id) = token.s)._id
            ELSE NotFound
       ELSE LET m == PrefixMatches(col, user, guild, token.s)
            IN IF Len(m) > 0 THEN m[1]._id ELSE NotFound

\* done: identifier.isdigit() indexes active_rows, else ObjectId, else prefix
ResolveDone(col, user, guild, token, view) ==
  IF token.t = "num"
  THEN IF 0 <= token.k - 1 /\ token.k - 1 < Len(view) THEN view[token.k]._id ELSE NotFound
  ELSE IF IsObjectId(token.s)
       THEN IF \E d \in Range(col) :
                  IdStr(d._id) = token.s /\ d.user_id = user /\ d.guild_id = guild
            THEN (CHOOSE d \in Range(col) : IdStr(d._id) = token.s)._id
            ELSE NotFound
       ELSE LET m == PrefixMatches(col, user, guild, token.s)
            IN IF Len(m) > 0 THEN m[1]._id ELSE NotFound

\* idx = -1 taken as Python takes it, the last row
ResolveDoneEventFromEnd(col, user, guild, token, view) ==
  IF token.t = "num" /\ token.k = 0 /\ Len(view) > 0
  THEN view[Len(view)]._id
  ELSE ResolveDone(col, user, guild, token, view)

\* doneevent: the same over events_col
ResolveDoneEvent(col, user, guild, token, view) ==
  IF token.t = "num"
  THEN IF 0 <= token.k - 1 /\ token.k - 1 < Len(view) THEN view[token.k]._id ELSE NotFound
  ELSE IF IsObjectId(token.s)
       THEN IF \E d \in Range(col) :
                  IdStr(d._id) = token.s /\ d.user_id = user /\ d.guild_id = guild
            THEN (CHOOSE d \in Range(col) : IdStr(d._id) = token.s)._id
            ELSE NotFound
       ELSE LET m == PrefixMatches(col, user, guild, token.s)
            IN IF Len(m) > 0 THEN m[1]._id ELSE NotFound

\* the numeric branch of assign taken on the rows as stored, not as sorted
ResolveAssignUnsorted(col, user, guild, token, view) ==
  IF token.t = "num"
  THEN IF 0 <= token.k - 1 /\ token.k - 1 < Len(view)
       THEN OwnOpen(col, user, guild)[token.k]._id ELSE NotFound
  ELSE ResolveDone(col, user, guild, token, view)

\* assign: find the target task
ResolveAssign(col, user, guild, token, view) ==
  IF token.t = "num"
  THEN IF 0 <= token.k - 1 /\ token.k - 1 < Len(view) THEN view[token.k]._id ELSE NotFound
  ELSE IF IsObjectId(token.s)
       THEN IF \E d \in Range(col) :
                  IdStr(d._id) = token.s /\ d.user_id = user /\ d.guild_id = guild
            THEN (CHOOSE d \in Range(col) : IdStr(d._id) = token.s)._id
            ELSE NotFound
       ELSE LET m == PrefixMatches(col, user, guild, token.s)
            IN IF Len(m) > 0 THEN m[1]._id ELSE NotFound

\* the candidate of find_one taken without the user_id and guild_id test
ResolveSetReminderAnyOwner(col, user, guild, token, view) ==
  IF token.t = "str" /\ IsObjectId(token.s) /\ (\E d \in Range(col) : IdStr(d._id) = token.s)
  THEN (CHOOSE d \in Range(col) : IdStr(d._id) = token.s)._id
  ELSE ResolveAssign(col, user, guild, token, view)

\* setreminder: find the target task
ResolveSetReminder(col, user, guild, token, view) ==
  IF token.t = "num"
  THEN IF 0 <= token.k - 1 /\ token.k - 1 < Len(view) THEN view[token.k]._id ELSE NotFound
  ELSE IF IsObjectId(token.s)
       THEN IF \E d \in Range(col) :
                  IdStr(d._id) = token.s /\ d.user_id = user /\ d.guild_id = guild
            THEN (CHOOSE d \in Range(col) : IdStr(d._id) = token.s)._id
            ELSE NotFound
       ELSE LET m == PrefixMatches(col, user, guild, token.s)
            IN IF Len(m) > 0 THEN m[1]._id ELSE NotFound

\* identifiers a user may type
Tokens ==
  {[t |-> "num", k |-> k, s |-> <<>>] : k \in 0..2}
    \cup {[t |-> "str", k |-> 0, s |-> s] : s \in {<<"a">>, <<"a", "a">>, <<"a", "b">>}}

\* ----------------------------------------------------------------- commands

\* parse_deadline raises ValueError unless the text has the date format
ParseFails(x) == x.txt # "date"
\* parse_deadline's result, the UTC instant
ParsedUTC(x) == x.t

\* re.match(r'^(\d+)([dhm])$', waktu.lower())
IsDuration(x) == x.txt = "dur"
UnitSeconds(u) == CASE u = "d" -> 24 * HourSeconds [] u = "h" -> HourSeconds [] u = "m" -> 60
\* reminder_time: now plus the duration, or the absolute instant parsed
ReminderTime(x, t) == IF IsDuration(x) THEN t + x.t * UnitSeconds(x.unit) ELSE ParsedUTC(x)

CustomLabel(j) == "custom_" \o ToString(j)
Labels == StdLabels \cup {CustomLabel(j) : j \in 1..MaxCustom}

\* the document /add inserts
TaskDoc(id, user, guild, deadline) ==
  [_id |-> id, user_id |-> user, guild_id |-> guild,
   judul |-> "t1", deadline |-> deadline, status |-> FALSE,
   reminders_sent |-> <<>>, tag |-> "individu",
   assigned_users |-> {}, custom_reminders |-> <<>>]

\* the document /addevent inserts
EventDoc(id, user, guild, start, end) ==
  [_id |-> id, user_id |-> user, guild_id |-> guild,
   judul |-> "t1", tanggal_mulai |-> start, status |-> FALSE,
   reminders_sent |-> <<>>,
   custom_reminders |-> <<>>, tanggal_selesai |-> end]

CustomReminderSent(time, user) == [time |-> time, sent |-> TRUE, created_by |-> user]

\* the entry /setreminder appends to custom_reminders
CustomReminder(time, user) == [time |-> time, sent |-> FALSE, created_by |-> user]

\* /add
Add(user, guild, dlText) ==
  /\ cmdsLeft > 0
  /\ IF ParseFails(dlText)
     THEN UNCHANGED <<tasks, nextId, cmdsLeft>>
     ELSE IF ParsedUTC(dlText) <= clock
     THEN UNCHANGED <<tasks, nextId, cmdsLeft>>
     ELSE /\ nextId <= MaxIds
          /\ tasks' = Append(tasks, TaskDoc(nextId, user, guild, ParsedUTC(dlText)))
          /\ nextId' = nextId + 1
          /\ cmdsLeft' = cmdsLeft - 1
  /\ UNCHANGED <<clock, events, sweepVars, budget, ticksLeft, edits, added, emitted, delivered, tickLog>>

AddEventEndNotBefore(user, guild, startText, endText) ==
  /\ cmdsLeft > 0
  /\ IF ParseFails(startText)
     THEN UNCHANGED <<events, nextId, cmdsLeft>>
     ELSE IF ParsedUTC(startText) <= clock
     THEN UNCHANGED <<events, nextId, cmdsLeft>>
     ELSE IF ParseFails(endText)
     THEN UNCHANGED <<events, nextId, cmdsLeft>>
     ELSE IF ParsedUTC(endText) < ParsedUTC(startText)
     THEN UNCHANGED <<events, nextId, cmdsLeft>>
     ELSE /\ nextId <= MaxIds
          /\ events' = Append(events, EventDoc(nextId, user, guild,
                                         ParsedUTC(startText), ParsedUTC(endText)))
          /\ nextId' = nextId + 1
          /\ cmdsLeft' = cmdsLeft - 1
  /\ UNCHANGED <<clock, tasks, sweepVars, budget, ticksLeft, edits, added, emitted, delivered, tickLog>>

\* /addevent
AddEvent(user, guild, startText, endText) ==
  /\ cmdsLeft > 0
  /\ IF ParseFails(startText)
     THEN UNCHANGED <<events, nextId, cmdsLeft>>
     ELSE IF ParsedUTC(startText) <= clock
     THEN UNCHANGED <<events, nextId, cmdsLeft>>
     ELSE IF ParseFails(endText)
     THEN UNCHANGED <<events, nextId, cmdsLeft>>
     ELSE IF ParsedUTC(endText) <= ParsedUTC(startText)
     THEN UNCHANGED <<events, nextId, cmdsLeft>>
     ELSE /\ nextId <= MaxIds
          /\ events' = Append(events, EventDoc(nextId, user, guild,
                                         ParsedUTC(startText), ParsedUTC(endText)))
          /\ nextId' = nextId + 1
          /\ cmdsLeft' = cmdsLeft - 1
  /\ UNCHANGED <<clock, tasks, sweepVars, budget, ticksLeft, edits, added, emitted, delivered, tickLog>>

EditSetClearFlags(d, judul, dlText, tag) ==
  [d EXCEPT !.judul = IF judul # "" THEN judul ELSE @,
            !.deadline = IF dlText.txt = "date" THEN ParsedUTC(dlText) ELSE @,
            !.reminders_sent = IF dlText.txt = "date" THEN <<>> ELSE @,
            !.custom_reminders = IF dlText.txt = "date"
                                 THEN [j \in 1..Len(@) |-> [@[j] EXCEPT !.sent = FALSE]]
                                 ELSE @,
            !.tag = IF tag # "" THEN tag ELSE @]
EditSetKeepLabels(d, judul, dlText, tag) ==
  [d EXCEPT !.judul = IF judul # "" THEN judul ELSE @,
            !.deadline = IF dlText.txt = "date" THEN ParsedUTC(dlText) ELSE @,
            !.tag = IF tag # "" THEN tag ELSE @]
\* update_doc of /edit: the fields given, and reminders_sent reset with the deadline
EditSet(d, judul, dlText, tag) ==
  [d EXCEPT !.judul = IF judul # "" THEN judul ELSE @,
            !.deadline = IF dlText.txt = "date" THEN ParsedUTC(dlText) ELSE @,
            !.reminders_sent = IF dlText.txt = "date" THEN <<>> ELSE @,
            !.tag = IF tag # "" THEN tag ELSE @]

EditTitleFirst(user, guild, token, judul, dlText, tag, view) ==
  /\ cmdsLeft > 0
  /\ LET target == Resolve(tasks, user, guild, token, view)
       IN IF judul = "" /\ dlText.txt = "none" /\ tag = ""
          THEN UNCHANGED <<tasks, cmdsLeft, edits>>
          ELSE IF target = NotFound
          THEN UNCHANGED <<tasks, cmdsLeft, edits>>
          ELSE IF dlText.txt # "none" /\ (ParseFails(dlText) \/ ParsedUTC(dlText) <= clock)
          THEN /\ tasks' = IF judul # ""
                           THEN UpdateOne(tasks, target, [DocOf(tasks, target) EXCEPT !.judul = judul])
                           ELSE tasks
               /\ UNCHANGED <<cmdsLeft, edits>>
          ELSE /\ tasks' = UpdateOne(tasks, target,
                              EditSet(DocOf(tasks, target), judul, dlText, tag))
               /\ cmdsLeft' = cmdsLeft - 1
               /\ edits' = IF dlText.txt = "date" THEN edits \cup {target} ELSE edits
  /\ UNCHANGED <<clock, events, nextId, sweepVars, budget, ticksLeft, added, emitted, delivered, tickLog>>

\* /edit
Edit(user, guild, token, judul, dlText, tag, view) ==
  /\ cmdsLeft > 0
  /\ LET target == Resolve(tasks, user, guild, token, view)
       IN IF judul = "" /\ dlText.txt = "none" /\ tag = ""
          THEN UNCHANGED <<tasks, cmdsLeft, edits>>
          ELSE IF target = NotFound
          THEN UNCHANGED <<tasks, cmdsLeft, edits>>
          ELSE IF dlText.txt # "none" /\ ParseFails(dlText)
          THEN UNCHANGED <<tasks, cmdsLeft, edits>>
          ELSE IF dlText.txt # "none" /\ ParsedUTC(dlText) <= clock
          THEN UNCHANGED <<tasks, cmdsLeft, edits>>
          ELSE /\ tasks' = UpdateOne(tasks, target,
                              EditSet(DocOf(tasks, target), judul, dlText, tag))
               /\ cmdsLeft' = cmdsLeft - 1
               /\ edits' = IF dlText.txt = "date" THEN edits \cup {target} ELSE edits
  /\ UNCHANGED <<clock, events, nextId, sweepVars, budget, ticksLeft, added, emitted, delivered, tickLog>>

\* {'$set': {'status': True, ..}} (completed_at is only displayed)
Complete(d, t) == [d EXCEPT !.status = TRUE]

\* /done
Done(user, guild, token, view) ==
  /\ cmdsLeft > 0
  /\ LET target == ResolveDone(tasks, user, guild, token, view)
       IN IF target = NotFound
          THEN UNCHANGED <<tasks, cmdsLeft>>
          ELSE /\ tasks' = UpdateOne(tasks, target, Complete(DocOf(tasks, target), clock))
               /\ cmdsLeft' = cmdsLeft - 1
  /\ UNCHANGED <<clock, events, nextId, sweepVars, budget, ticksLeft, edits, added, emitted, delivered, tickLog>>

\* /doneevent
DoneEvent(user, guild, token, view) ==
  /\ cmdsLeft > 0
  /\ LET target == ResolveDoneEvent(events, user, guild, token, view)
       IN IF target = NotFound
          THEN UNCHANGED <<events, cmdsLeft>>
          ELSE /\ events' = UpdateOne(events, target, Complete(DocOf(events, target), clock))
               /\ cmdsLeft' = cmdsLeft - 1
  /\ UNCHANGED <<clock, tasks, nextId, sweepVars, budget, ticksLeft, edits, added, emitted, delivered, tickLog>>

\* /assign; mentioned are the user ids found in the users argument
Assign(user, guild, token, mentioned, view) ==
  /\ cmdsLeft > 0
  /\ LET target == ResolveAssign(tasks, user, guild, token, view)
     IN IF target = NotFound
        THEN UNCHANGED <<tasks, cmdsLeft>>
        ELSE IF mentioned = {}
        THEN UNCHANGED <<tasks, cmdsLeft>>
        ELSE /\ tasks' = UpdateOne(tasks, target,
                            [DocOf(tasks, target) EXCEPT !.assigned_users = @ \cup mentioned])
             /\ cmdsLeft' = cmdsLeft - 1
  /\ UNCHANGED <<clock, events, nextId, sweepVars, budget, ticksLeft, edits, added, emitted, delivered, tickLog>>

\* /setreminder; waktu is a duration or an absolute time
SetReminder(user, guild, token, waktu, view) ==
  /\ cmdsLeft > 0
  /\ LET target == ResolveSetReminder(tasks, user, guild, token, view)
       IN IF target = NotFound
          THEN UNCHANGED <<tasks, cmdsLeft, added>>
          ELSE IF ~IsDuration(waktu) /\ ParseFails(waktu)
          THEN UNCHANGED <<tasks, cmdsLeft, added>>
          ELSE IF ReminderTime(waktu, clock) <= clock
          THEN UNCHANGED <<tasks, cmdsLeft, added>>
          ELSE /\ Len(DocOf(tasks, target).custom_reminders) < MaxCustom
               /\ tasks' = UpdateOne(tasks, target,
                     [DocOf(tasks, target) EXCEPT !.custom_reminders =
                        Append(DocOf(tasks, target).custom_reminders,
                               CustomReminder(ReminderTime(waktu, clock), user))])
               /\ cmdsLeft' = cmdsLeft - 1
               /\ added' = added \cup {<<target, ReminderTime(waktu, clock)>>}
  /\ UNCHANGED <<clock, events, nextId, sweepVars, budget, ticksLeft, edits, emitted, delivered, tickLog>>

\* -------------------------------------------------------------------- sweep

NTh == Len(REMINDER_THRESHOLDS)

InWindowNarrow(seconds_left, th) ==
  /\ 4 * (th * HourSeconds - seconds_left) <= Tolerance
  /\ 4 * (seconds_left - th * HourSeconds) <= Tolerance
InWindowOpen(seconds_left, th) ==
  /\ th * HourSeconds - Tolerance < seconds_left
  /\ seconds_left < th * HourSeconds + Tolerance
\* target_seconds - 90 <= seconds_left <= target_seconds + 90
InWindow(seconds_left, th) ==
  /\ th * HourSeconds - Tolerance <= seconds_left
  /\ seconds_left <= th * HourSeconds + Tolerance

ThresholdDueAnyLabel(seconds_left, th, sent) == InWindow(seconds_left, th)
\* label not in reminders_sent and the threshold window is hit
ThresholdDue(seconds_left, th, sent) ==
  ThLabel(th) \notin Range(sent) /\ InWindow(seconds_left, th)

DueNowStrict(seconds_left, sent) == seconds_left < 0 /\ DueLabel \notin Range(sent)
\* seconds_left <= 0 and 'rem_due' not in reminders_sent
DueNow(seconds_left, sent) == seconds_left <= 0 /\ DueLabel \notin Range(sent)

ExpiredAtLimit(seconds_left) == seconds_left <= -ExpirySeconds
\* seconds_left < -86400
Expired(seconds_left) == seconds_left < -ExpirySeconds

CustomDueAgain(diff, sent) == -Tolerance <= diff /\ diff <= Tolerance
\* not reminder['sent'] and -90 <= diff <= 90, diff = now_utc - reminder_time
CustomDue(diff, sent) == ~sent /\ -Tolerance <= diff /\ diff <= Tolerance

Op(kind, what, delta) == [kind |-> kind, what |-> what, delta |-> delta]

\* the pre-deadline reminders of one item, in the order of REMINDER_THRESHOLDS
ThresholdOps(doc, seconds_left) ==
  LET F[k \in 0..NTh] ==
        IF k = 0 THEN <<>>
        ELSE IF ThresholdDue(seconds_left, REMINDER_THRESHOLDS[k], doc.reminders_sent)
             THEN Append(F[k - 1], Op("std", ThLabel(REMINDER_THRESHOLDS[k]), seconds_left))
             ELSE F[k - 1]
  IN F[NTh]

DueOps(doc, seconds_left) ==
  IF DueNow(seconds_left, doc.reminders_sent)
  THEN <<Op("std", DueLabel, seconds_left)>> ELSE <<>>

ExpireOps(doc, seconds_left) ==
  IF Expired(seconds_left) THEN <<Op("delete", "", seconds_left)>> ELSE <<>>

\* the custom reminders of one item, by position; t is the now_utc sampled
\* for the item
CustomOps(doc, t) ==
  LET cr == doc.custom_reminders
      F[k \in 0..Len(cr)] ==
        IF k = 0 THEN <<>>
        ELSE IF CustomDue(t - cr[k].time, cr[k].sent)
             THEN Append(F[k - 1], Op("custom", CustomLabel(k), t - cr[k].time))
             ELSE F[k - 1]
  IN F[Len(cr)]

ItemOpsDeleteFirst(doc, tickNow, t) ==
  LET seconds_left == DeadlineOf(doc) - tickNow
  IN ThresholdOps(doc, seconds_left) \o ExpireOps(doc, seconds_left)
       \o DueOps(doc, seconds_left) \o CustomOps(doc, t)
\* what one pass of the loop body does for a loaded document, in program
\* order: thresholds, due, auto-delete, custom reminders
ItemOps(doc, tickNow, t) ==
  LET seconds_left == DeadlineOf(doc) - tickNow
  IN ThresholdOps(doc, seconds_left) \o DueOps(doc, seconds_left)
       \o ExpireOps(doc, seconds_left) \o CustomOps(doc, t)

\* How a send can end:
\*   "raised"      a settings lookup in the executor raised (propagates)
\*   "no_guild"    the document has no guild_id (no message)
\*   "no_channel"  no channel could be resolved for the guild (no message)
\*   "send_failed" channel.send raised
\*   "sent"        the message reached the channel
Failures == {"raised", "no_channel", "send_failed"}
SendOutcomes(doc, b) ==
  IF doc.guild_id = NoGuild
  THEN {"no_guild"} \cup (IF b > 0 THEN {"raised"} ELSE {})
  ELSE {"sent"} \cup (IF b > 0 THEN Failures ELSE {})

Cost(o) == IF o \in Failures \cup {"failed"} THEN 1 ELSE 0

\* a store call in the executor: done, or raised
WriteOutcomes(b) == {"ok"} \cup (IF b > 0 THEN {"failed"} ELSE {})

\* does the standard-notification block mark the label after this send outcome?
\* send_reminder_for_task / _event log a failed channel.send themselves and
\* return; only a raising lookup leaves the try block before the mark
MarksAfter(o) == o # "raised"

\* does the custom-reminder block flag the reminder after this outcome?
\* channel.send is called inside the block's try: its failure skips the flag
FlagsAfter(o) == o \notin {"raised", "send_failed"}

\* the ways one operation can go with b failures left: o is the send, w the
\* store write that follows it
Choices(op, doc, b) ==
  IF op.kind = "delete"
  THEN {[o |-> "none", w |-> w] : w \in WriteOutcomes(b)}
  ELSE UNION {{[o |-> o, w |-> w] :
                 w \in (IF (IF op.kind = "std" THEN MarksAfter(o) ELSE FlagsAfter(o))
                        THEN WriteOutcomes(b - Cost(o)) ELSE {"skipped"})} :
              o \in SendOutcomes(doc, b)}

RECURSIVE Plans(_, _, _)
Plans(ops, doc, b) ==
  IF ops = <<>> THEN {<<>>}
  ELSE UNION {{<<c>> \o rest : rest \in Plans(Tail(ops), doc, b - Cost(c.o) - Cost(c.w))} :
              c \in Choices(Head(ops), doc, b)}

Bump(em, id, label) ==
  [em EXCEPT ![<<id, label>>] = IF @ < MaxEmit THEN @ + 1 ELSE @]

LogEntry(id, ev, what, res, delta) ==
  [it |-> id, ev |-> ev, what |-> what, res |-> res, delta |-> delta]

\* custom_reminders[idx]['sent'] = True on the loaded copy
FlagSent(cr, idx) == [cr EXCEPT ![idx].sent = TRUE]

WriteCustomFlags(col, id, cr) ==
  UpdateOne(col, id, [DocOf(col, id) EXCEPT !.custom_reminders =
     [j \in 1..Len(@) |-> IF j <= Len(cr) /\ cr[j].sent
                          THEN [@[j] EXCEPT !.sent = TRUE] ELSE @[j]]])

\* {'$set': {'custom_reminders': custom_reminders}}: the whole list is written
WriteCustom(col, id, cr) ==
  UpdateOne(col, id, [DocOf(col, id) EXCEPT !.custom_reminders = cr])

CustomIndex(label) == CHOOSE j \in 1..(MaxCustom + 1) : CustomLabel(j) = label

\* one operation on the accumulated effect acc = [col, em, dl, log, cr, b]:
\* col the collection being swept, cr the loaded custom_reminders list
ApplyOp(acc, doc, op, c) ==
  IF op.kind = "std"
  THEN [acc EXCEPT
          !.em = Bump(@, doc._id, op.what),
          !.dl = IF c.o = "sent" THEN Bump(@, doc._id, op.what) ELSE @,
          !.log = @ \o <<LogEntry(doc._id, "send", op.what, c.o, op.delta)>>
                    \o (IF c.w = "skipped" THEN <<>>
                        ELSE <<LogEntry(doc._id, "mark", op.what, c.w, op.delta)>>),
          !.col = IF c.w = "ok" THEN MarkReminderSent(@, doc._id, op.what) ELSE @,
          !.b = @ - Cost(c.o) - Cost(c.w)]
  ELSE IF op.kind = "delete"
  THEN [acc EXCEPT
          !.log = Append(@, LogEntry(doc._id, "delete", "", c.w, op.delta)),
          !.col = IF c.w = "ok" THEN DeleteOne(@, doc._id) ELSE @,
          !.b = @ - Cost(c.w)]
  ELSE LET flagged == IF c.w = "skipped" THEN acc.cr
                      ELSE FlagSent(acc.cr, CustomIndex(op.what))
       IN [acc EXCEPT
             !.em = Bump(@, doc._id, op.what),
             !.dl = IF c.o = "sent" THEN Bump(@, doc._id, op.what) ELSE @,
             !.log = @ \o <<LogEntry(doc._id, "send", op.what, c.o, op.delta)>>
                       \o (IF c.w = "skipped" THEN <<>>
                           ELSE <<LogEntry(doc._id, "flag", op.what, c.w, op.delta)>>),
             !.cr = flagged,
             !.col = IF c.w = "ok" THEN WriteCustom(@, doc._id, flagged) ELSE @,
             !.b = @ - Cost(c.o) - Cost(c.w)]

RECURSIVE RunOps(_, _, _, _)
RunOps(acc, doc, ops, plan) ==
  IF ops = <<>> THEN acc
  ELSE RunOps(ApplyOp(acc, doc, Head(ops), Head(plan)), doc, Tail(ops), Tail(plan))

\* the start of check_reminders at the instant t: now is sampled and the
\* open tasks are loaded; a store timeout ends the tick
Load(t) ==
  /\ pc = "idle"
  /\ \E w \in WriteOutcomes(budget) :
       /\ budget' = budget - Cost(w)
       /\ tickLog' = <<LogEntry(NotFound, "load", "tasks", w, t)>>
       /\ IF w = "ok"
          THEN /\ now' = t /\ rows' = OpenDocs(tasks) /\ pc' = "tasks" /\ i' = 1
          ELSE /\ now' = 0 /\ rows' = <<>> /\ pc' = "idle" /\ i' = 0
  /\ UNCHANGED <<tasks, events, nextId, cmdsLeft, edits, added, lastRes, jobVars, emitted, delivered>>

\* the interval trigger fires
TickStart ==
  /\ ticksLeft > 0
  /\ ticksLeft' = ticksLeft - 1
  /\ Load(clock)
  /\ UNCHANGED clock

InLoop == pc \in {"tasks", "events"}

NextIndexBreak(idx, n, failed) == IF failed THEN n + 1 ELSE idx + 1
\* for tdoc in rows / for edoc in event_rows: every except clause of the
\* body logs and falls through, so the loop goes on to the next document
\* whether or not something failed for this one
NextIndex(idx, n, failed) == idx + 1

\* the loop body for the document rows[i]
SweepItem ==
  /\ InLoop /\ i <= Len(rows)
  /\ LET doc == rows[i]
         ops == ItemOps(doc, now, clock)
         acc0 == [col |-> IF pc = "tasks" THEN tasks ELSE events,
                  em |-> emitted,
                  dl |-> delivered,
                  log |-> Append(tickLog, LogEntry(doc._id, "eval", "", "", clock)),
                  cr |-> doc.custom_reminders,
                  b |-> budget]
     IN \E plan \in Plans(ops, doc, budget) :
          LET acc == RunOps(acc0, doc, ops, plan)
          IN /\ IF pc = "tasks"
                THEN tasks' = acc.col /\ UNCHANGED events
                ELSE events' = acc.col /\ UNCHANGED tasks
             /\ emitted' = acc.em
             /\ delivered' = acc.dl
             /\ tickLog' = acc.log
             /\ budget' = acc.b
             /\ i' = NextIndex(i, Len(rows), acc.b < budget)
  /\ UNCHANGED <<clock, nextId, pc, now, rows, ticksLeft, cmdsLeft, edits, added, lastRes, jobVars>>

\* the tasks are done: the open events are loaded; a store timeout leaves
\* event_rows empty
LoadEvents ==
  /\ pc = "tasks" /\ i > Len(rows)
  /\ \E w \in WriteOutcomes(budget) :
       /\ budget' = budget - Cost(w)
       /\ rows' = IF w = "ok" THEN OpenDocs(events) ELSE <<>>
       /\ tickLog' = Append(tickLog, LogEntry(NotFound, "load", "events", w, clock))
  /\ pc' = "events"
  /\ i' = 1
  /\ UNCHANGED <<clock, tasks, events, nextId, now, ticksLeft, cmdsLeft, edits, added, lastRes, jobVars, emitted, delivered>>

\* the events are done: the tick ends
TickEnd ==
  /\ pc = "events" /\ i > Len(rows)
  /\ pc' = "idle"
  /\ now' = 0 /\ rows' = <<>> /\ i' = 0 /\ tickLog' = <<>>
  /\ UNCHANGED <<clock, tasks, events, nextId, budget, ticksLeft, cmdsLeft, edits, added, lastRes, jobVars, emitted, delivered>>

\* -------------------------------------------------------------- environment

\* time passes, to the next instant at which the clock is observed; a tick
\* in progress sees the clock move on at most once
Advance ==
  /\ pc = "idle" \/ now = clock
  /\ \E t \in ClockPoints :
       /\ t > clock
       /\ \A u \in ClockPoints : u > clock => t <= u
       /\ clock' = t
  /\ UNCHANGED <<tasks, events, nextId, sweepVars, budget, ticksLeft, cmdsLeft, edits, added, lastRes, jobVars, emitted, delivered, tickLog>>

\* the rows a command fetched: find(..).sort(.., 1) and the overdue filter
FetchedViews(col, user, guild) == SortedViews(ActiveRows(col, user, guild, clock))

\* the commands are issued inside a guild
CmdAdd ==
  /\ \E user \in Users, guild \in Guilds, dl \in DateText(AddInputs) :
       Add(user, guild, dl)
  /\ UNCHANGED <<lastRes, jobVars>>

CmdAddEvent ==
  /\ \E user \in Users, guild \in Guilds,
        st \in DateText(AddInputs), en \in DateText(EndInputs) :
       AddEvent(user, guild, st, en)
  /\ UNCHANGED <<lastRes, jobVars>>

CmdEdit ==
  /\ cmdsLeft > 0
  /\ \E user \in Users, guild \in Guilds, token \in Tokens, judul \in {""},
        dl \in DateText(DeadlineInputs) \cup {NoText}, tag \in {""} :
       \E view \in FetchedViews(tasks, user, guild) :
         Edit(user, guild, token, judul, dl, tag, view)
  /\ UNCHANGED <<lastRes, jobVars>>

CmdDone ==
  /\ cmdsLeft > 0
  /\ \E user \in Users, guild \in Guilds, token \in Tokens :
       \E view \in FetchedViews(tasks, user, guild) : Done(user, guild, token, view)
  /\ UNCHANGED <<lastRes, jobVars>>

CmdDoneEvent ==
  /\ cmdsLeft > 0
  /\ \E user \in Users, guild \in Guilds, token \in Tokens :
       \E view \in FetchedViews(events, user, guild) : DoneEvent(user, guild, token, view)
  /\ UNCHANGED <<lastRes, jobVars>>

CmdAssign ==
  /\ cmdsLeft > 0
  /\ \E user \in Users, guild \in Guilds, token \in Tokens, mentioned \in MentionInputs :
       \E view \in FetchedViews(tasks, user, guild) :
         Assign(user, guild, token, mentioned, view)
  /\ UNCHANGED <<lastRes, jobVars>>

CmdSetReminder ==
  /\ cmdsLeft > 0
  /\ \E user \in Users, guild \in Guilds, token \in Tokens,
        waktu \in DateText(ReminderInputs) \cup DurationInputs :
       \E view \in FetchedViews(tasks, user, guild) :
         SetReminder(user, guild, token, waktu, view)
  /\ UNCHANGED <<lastRes, jobVars>>

Init ==
  /\ clock = 0
  /\ tasks = <<>>
  /\ events = <<>>
  /\ nextId = 1
  /\ pc = "idle"
  /\ now = 0
  /\ rows = <<>>
  /\ i = 0
  /\ budget = MaxFaults
  /\ ticksLeft = MaxTicks
  /\ cmdsLeft = MaxCmds
  /\ edits = {}
  /\ added = {}
  /\ lastRes = NoRes
  /\ weekly = NoWeekly
  /\ render = NoRender
  /\ pager = NoPager
  /\ conv = NoConv
  /\ emitted = [k \in (1..MaxIds) \X Labels |-> 0]
  /\ delivered = [k \in (1..MaxIds) \X Labels |-> 0]
  /\ tickLog = <<>>

Next ==
  \/ Advance
  \/ CmdAdd
  \/ CmdAddEvent
  \/ CmdEdit
  \/ CmdDone
  \/ CmdDoneEvent
  \/ CmdAssign
  \/ CmdSetReminder
  \/ TickStart
  \/ SweepItem
  \/ LoadEvents
  \/ TickEnd

Spec == Init /\ [][Next]_vars

\* ----------------------------------------------------- regular sweeping

\* An item is created at instant 0, a little more than a threshold and its
\* tolerance ahead of its deadline, and the interval trigger then fires
\* again and again, each tick at most TickInterval after the one before.
CoverLeads == {1, MaxLead}
CoverEnd == MaxLead + 2 * Tolerance + TickInterval

InitCover ==
  /\ clock = 0
  /\ \E th \in ThresholdSet, lead \in CoverLeads :
       LET dl == th * HourSeconds + Tolerance + lead
       IN \/ tasks = <<TaskDoc(1, "u1", "g1", dl)>> /\ events = <<>>
          \/ tasks = <<>> /\ events = <<EventDoc(1, "u1", "g1", dl, dl + HourSeconds)>>
  /\ nextId = 2
  /\ pc = "idle"
  /\ now = 0
  /\ rows = <<>>
  /\ i = 0
  /\ budget = MaxFaults
  /\ ticksLeft = 0
  /\ cmdsLeft = 0
  /\ edits = {}
  /\ added = {}
  /\ lastRes = NoRes
  /\ weekly = NoWeekly
  /\ render = NoRender
  /\ pager = NoPager
  /\ conv = NoConv
  /\ emitted = [k \in (1..MaxIds) \X Labels |-> 0]
  /\ delivered = [k \in (1..MaxIds) \X Labels |-> 0]
  /\ tickLog = <<>>

\* the next firing of the interval trigger, some seconds after the last
TickAfter ==
  \E gap \in 1..TickInterval :
    /\ clock + gap <= CoverEnd
    /\ clock' = clock + gap
    /\ Load(clock + gap)
    /\ UNCHANGED ticksLeft

NextCover ==
  \/ TickAfter
  \/ SweepItem
  \/ LoadEvents
  \/ TickEnd

SpecCover == InitCover /\ [][NextCover]_vars

\* ------------------------------------------------------ custom reminders

\* A task that was given two custom reminders, three minutes apart, both
\* still unsent, and that was assigned to a second user, and an event; one
\* more command may follow.
InitCustom ==
  /\ clock = 0
  /\ tasks = <<[TaskDoc(1, "u1", "g1", FirstDeadline) EXCEPT
                 !.custom_reminders =
                   <<CustomReminder(FirstDeadline - 24 * HourSeconds, "u1"),
                     CustomReminder(FirstDeadline - 24 * HourSeconds + 2 * Tolerance, "u1")>>,
                 !.assigned_users = {"u2"}]>>
  /\ events = <<EventDoc(2, "u1", "g1", LaterDeadline, LaterDeadline + HourSeconds)>>
  /\ nextId = 3
  /\ pc = "idle"
  /\ now = 0
  /\ rows = <<>>
  /\ i = 0
  /\ budget = MaxFaults
  /\ ticksLeft = MaxTicks
  /\ cmdsLeft = 1
  /\ edits = {}
  /\ added = {}
  /\ lastRes = NoRes
  /\ weekly = NoWeekly
  /\ render = NoRender
  /\ pager = NoPager
  /\ conv = NoConv
  /\ emitted = [k \in (1..MaxIds) \X Labels |-> 0]
  /\ delivered = [k \in (1..MaxIds) \X Labels |-> 0]
  /\ tickLog = <<>>

SpecCustom == InitCustom /\ [][Next]_vars

\* ------------------------------------------------------------ observations

\* the loaded documents the current loop has already passed
Processed == IF InLoop THEN 1..(i - 1) ELSE {}

\* the collection the current loop sweeps
Swept == IF pc = "tasks" THEN tasks ELSE events

\* the positions of the tick's log where the sink was invoked for (id, label)
Sends(id, label) ==
  {p \in 1..Len(tickLog) :
     tickLog[p].it = id /\ tickLog[p].ev = "send" /\ tickLog[p].what = label}

\* no store call and no send has failed so far
NoFaultYet == budget = MaxFaults

\* the stored document id, if it is still there, carries the label
StoredLabel(id, label) ==
  HasDoc(Swept, id) => label \in Range(DocOf(Swept, id).reminders_sent)

\* ------------------------------------------------------------------ claims

\* C1: a standard label that an item carries when a tick loads it is never
\* sent again by that tick: whatever the clock, a label in reminders_sent
\* means no notification under that label for the item.
C1_Idempotent ==
  \A k \in 1..Len(rows) : \A label \in StdLabels :
    label \in Range(rows[k].reminders_sent) => Sends(rows[k]._id, label) = {}

\* a second tick inside the 72 h window passes an item that already carries
\* rem_72h and sends nothing
C1_Witness ==
  \E k \in Processed :
    /\ ThLabel(72) \in Range(rows[k].reminders_sent)
    /\ 72 * HourSeconds - Tolerance <= DeadlineOf(rows[k]) - now
    /\ DeadlineOf(rows[k]) - now <= 72 * HourSeconds + Tolerance
    /\ emitted[<<rows[k]._id, ThLabel(72)>>] = 1
    /\ Sends(rows[k]._id, ThLabel(72)) = {}

\* C2: a tick that finds an open item at or past its deadline without the
\* due label hands the due notification to the sink, however late the tick
\* is; when nothing fails and the item is not edited the label is then
\* stored, and the item gets the due notification once and only once.
C2_DueOnce ==
  /\ \A k \in Processed :
       LET d == rows[k]
       IN DeadlineOf(d) <= now /\ DueLabel \notin Range(d.reminders_sent)
            => /\ Sends(d._id, DueLabel) # {}
               /\ NoFaultYet /\ d._id \notin edits
                    => /\ StoredLabel(d._id, DueLabel)
                       /\ emitted[<<d._id, DueLabel>>] = 1
  /\ \A id \in 1..MaxIds :
       NoFaultYet /\ id \notin edits => emitted[<<id, DueLabel>>] <= 1

\* a tick that first sees the item long after its deadline catches up
C2_Witness ==
  \E k \in Processed :
    /\ now - DeadlineOf(rows[k]) > Tolerance
    /\ DueLabel \notin Range(rows[k].reminders_sent)
    /\ NoFaultYet
    /\ HasDoc(Swept, rows[k]._id)
    /\ DueLabel \in Range(DocOf(Swept, rows[k]._id).reminders_sent)
    /\ emitted[<<rows[k]._id, DueLabel>>] = 1

\* C3: for each threshold t a tick hands the t-hour notification of an item
\* to the sink exactly when the item lacks the label and its remaining time
\* is within 90 s of t hours, both ends included; when nothing fails the
\* label is then stored.
C3_ThresholdWindow ==
  \A k \in Processed : \A th \in ThresholdSet :
    LET d == rows[k]
        left == DeadlineOf(d) - now
        fires == /\ ThLabel(th) \notin Range(d.reminders_sent)
                 /\ th * HourSeconds - Tolerance <= left
                 /\ left <= th * HourSeconds + Tolerance
    IN /\ Sends(d._id, ThLabel(th)) # {} <=> fires
       /\ fires /\ NoFaultYet /\ d._id \notin edits => StoredLabel(d._id, ThLabel(th))

\* the 24 h reminder goes out at the very edge of its window
C3_Witness ==
  \E k \in Processed :
    /\ DeadlineOf(rows[k]) - now = 24 * HourSeconds + Tolerance
    /\ Sends(rows[k]._id, ThLabel(24)) # {}
    /\ HasDoc(Swept, rows[k]._id)
    /\ ThLabel(24) \in Range(DocOf(Swept, rows[k]._id).reminders_sent)

\* C4: under SpecCover an item that is made more than t hours and 90 s ahead
\* of its deadline (at instant 0) and swept by ticks at most 60 s apart, with
\* no failure, gets the t-hour notification exactly once: never twice, and
\* once as soon as a tick has run with at most t hours and 90 s to go.
C4_Coverage ==
  \A k \in 1..Len(tasks \o events) : \A th \in ThresholdSet :
    LET d == (tasks \o events)[k]
        sentTimes == emitted[<<d._id, ThLabel(th)>>]
    IN NoFaultYet /\ DeadlineOf(d) > th * HourSeconds + Tolerance
         => /\ sentTimes <= 1
            /\ pc = "idle" /\ clock > 0
                 /\ DeadlineOf(d) - clock <= th * HourSeconds + Tolerance
                 => sentTimes = 1

\* the window of the 72 h reminder is over and the reminder went out once
C4_Witness ==
  \E k \in 1..Len(tasks \o events) :
    LET d == (tasks \o events)[k]
    IN /\ NoFaultYet /\ pc = "idle"
       /\ DeadlineOf(d) = 72 * HourSeconds + Tolerance + MaxLead
       /\ DeadlineOf(d) - clock < 72 * HourSeconds - Tolerance
       /\ emitted[<<d._id, ThLabel(72)>>] = 1

\* the positions of the tick's log where the document id was deleted
Deletes(id) ==
  {p \in 1..Len(tickLog) : tickLog[p].it = id /\ tickLog[p].ev = "delete"}

\* C5: when channel.send fails for a standard notification of an item, the
\* tick leaves the label off the stored item, so that a later tick tries
\* again.
C5_FailedSendKeepsLabelOff ==
  \A k \in Processed : \A label \in StdLabels :
    LET d == rows[k]
    IN /\ label \notin Range(d.reminders_sent)
       /\ \E p \in Sends(d._id, label) : tickLog[p].res = "send_failed"
       /\ HasDoc(Swept, d._id)
       => label \notin Range(DocOf(Swept, d._id).reminders_sent)

\* C6: a tick that finds an item more than 24 h overdue without the due
\* label first hands the due notification to the sink and then deletes the
\* item; no item that lacks the due label is deleted before that attempt.
C6_DueThenDelete ==
  \A k \in Processed :
    LET d == rows[k]
    IN DueLabel \notin Range(d.reminders_sent)
         => /\ now - DeadlineOf(d) > ExpirySeconds
                 => \E q \in Sends(d._id, DueLabel) : \E p \in Deletes(d._id) : q < p
            /\ \A p \in Deletes(d._id) : \E q \in Sends(d._id, DueLabel) : q < p

\* the late due notice went out and the item is gone
C6_Witness ==
  \E k \in Processed :
    /\ DueLabel \notin Range(rows[k].reminders_sent)
    /\ now - DeadlineOf(rows[k]) > ExpirySeconds
    /\ \E q \in Sends(rows[k]._id, DueLabel) : \E p \in Deletes(rows[k]._id) :
         q < p /\ tickLog[q].res = "sent" /\ tickLog[p].res = "ok"
    /\ ~HasDoc(Swept, rows[k]._id)

\* C7: once a tick has deleted an item it does nothing more for it: no
\* notification is sent for it and no write on it is attempted.
C7_NothingAfterDelete ==
  \A p \in 1..Len(tickLog) : \A q \in 1..Len(tickLog) :
    tickLog[p].ev = "delete" /\ p < q => tickLog[q].it # tickLog[p].it

\* C8: a tick deletes a loaded item exactly when the item is overdue by
\* strictly more than 24 hours, and a deleted item is in no collection.
C8_ExpiryCondition ==
  /\ \A k \in Processed :
       Deletes(rows[k]._id) # {} <=> now - DeadlineOf(rows[k]) > ExpirySeconds
  /\ \A p \in 1..Len(tickLog) :
       tickLog[p].ev = "delete" /\ tickLog[p].res = "ok"
         => ~HasDoc(tasks, tickLog[p].it) /\ ~HasDoc(events, tickLog[p].it)

\* an item one second past the limit is deleted
C8_Witness ==
  \E k \in Processed :
    /\ now - DeadlineOf(rows[k]) = ExpirySeconds + 1
    /\ \E p \in Deletes(rows[k]._id) : tickLog[p].res = "ok"
    /\ ~HasDoc(tasks, rows[k]._id) /\ ~HasDoc(events, rows[k]._id)

\* C10: a step that changes the deadline of a stored task leaves the task
\* without sent labels, and a tick that starts loads every open task with
\* the deadline and the labels the store holds at that moment.
C10_EditRestarts ==
  [][/\ \A a \in 1..Len(tasks) : \A b \in 1..Len(tasks') :
          tasks[a]._id = tasks'[b]._id /\ tasks[a].deadline # tasks'[b].deadline
            => tasks'[b].reminders_sent = <<>>
     /\ pc = "idle" /\ pc' = "tasks"
          => \A d \in Range(tasks) :
               ~d.status => \E k \in 1..Len(rows') :
                              /\ rows'[k]._id = d._id
                              /\ rows'[k].deadline = d.deadline
                              /\ rows'[k].reminders_sent = d.reminders_sent]_vars

\* the 72 h reminder went out for the first deadline and, after the edit,
\* once more for the later deadline
C10_Witness ==
  \E k \in Processed :
    /\ pc = "tasks"
    /\ rows[k]._id \in edits
    /\ rows[k].deadline = LaterDeadline
    /\ Sends(rows[k]._id, ThLabel(72)) # {}
    /\ emitted[<<rows[k]._id, ThLabel(72)>>] = 2

\* the instant now_utc sampled for the document id in this tick
SampledFor(id) ==
  LET p == CHOOSE q \in 1..Len(tickLog) : tickLog[q].it = id /\ tickLog[q].ev = "eval"
  IN tickLog[p].delta

\* C9: each custom reminder of an item is judged on its own: a tick sends
\* reminder j exactly when j is unsent and its time is within 90 s of the
\* instant sampled for the item; when nothing fails that reminder is then
\* stored as sent, the other reminders keep their flags, and the standard
\* labels of the item are not involved.
C9_CustomReminders ==
  \A k \in Processed :
    LET d == rows[k]
        cr == d.custom_reminders
        diff(j) == SampledFor(d._id) - cr[j].time
        fires(j) == ~cr[j].sent /\ -Tolerance <= diff(j) /\ diff(j) <= Tolerance
        stored == DocOf(Swept, d._id).custom_reminders
    IN /\ \A j \in 1..Len(cr) : Sends(d._id, CustomLabel(j)) # {} <=> fires(j)
       /\ NoFaultYet /\ HasDoc(Swept, d._id)
            => /\ Len(stored) >= Len(cr)
               /\ \A j \in 1..Len(cr) : stored[j].sent = (cr[j].sent \/ fires(j))
               /\ \A j \in 1..Len(cr) : stored[j].time = cr[j].time
       /\ \A label \in Range(d.reminders_sent) : label \in StdLabels

\* of two unsent reminders the tick sends and flags the second only, on an
\* item that already carries a standard label
C9_Witness ==
  \E k \in Processed :
    LET d == rows[k]
        stored == DocOf(Swept, d._id).custom_reminders
    IN /\ Len(d.custom_reminders) = 2
       /\ ~d.custom_reminders[1].sent /\ ~d.custom_reminders[2].sent
       /\ d.reminders_sent # <<>>
       /\ Sends(d._id, CustomLabel(1)) = {}
       /\ Sends(d._id, CustomLabel(2)) # {}
       /\ NoFaultYet /\ HasDoc(Swept, d._id)
       /\ ~stored[1].sent /\ stored[2].sent

\* C11: a step that changes the deadline of a stored task leaves its custom
\* reminders as they were, fire times and sent flags alike, and leaves its
\* completion status, owner, guild and assigned users as they were.
C11_EditFrame ==
  [][\A a \in 1..Len(tasks) : \A b \in 1..Len(tasks') :
       tasks[a]._id = tasks'[b]._id /\ tasks[a].deadline # tasks'[b].deadline
         => /\ tasks'[b].custom_reminders = tasks[a].custom_reminders
            /\ tasks'[b].status = tasks[a].status
            /\ tasks'[b].user_id = tasks[a].user_id
            /\ tasks'[b].guild_id = tasks[a].guild_id
            /\ tasks'[b].assigned_users = tasks[a].assigned_users]_vars

\* a task with a new deadline still has its first reminder flagged sent, its
\* second unsent, and its assignee
C11_Witness ==
  \E k \in 1..Len(tasks) :
    /\ tasks[k]._id \in edits
    /\ tasks[k].deadline = LaterDeadline
    /\ Len(tasks[k].custom_reminders) = 2
    /\ tasks[k].custom_reminders[1].sent
    /\ ~tasks[k].custom_reminders[2].sent
    /\ tasks[k].assigned_users = {"u2"}
    /\ tasks[k].reminders_sent = <<>>

\* the loaded document rows[k] went through the whole loop body: each
\* threshold, the due test, the expiry test and each custom reminder
Evaluated(k) ==
  LET d == rows[k]
      left == DeadlineOf(d) - now
      cr == d.custom_reminders
  IN /\ \E p \in 1..Len(tickLog) : tickLog[p].it = d._id /\ tickLog[p].ev = "eval"
     /\ \A th \in ThresholdSet :
          Sends(d._id, ThLabel(th)) # {}
            <=> /\ ThLabel(th) \notin Range(d.reminders_sent)
                /\ th * HourSeconds - Tolerance <= left
                /\ left <= th * HourSeconds + Tolerance
     /\ Sends(d._id, DueLabel) # {}
          <=> left <= 0 /\ DueLabel \notin Range(d.reminders_sent)
     /\ Deletes(d._id) # {} <=> left < -ExpirySeconds
     /\ \A j \in 1..Len(cr) :
          Sends(d._id, CustomLabel(j)) # {}
            <=> /\ ~cr[j].sent
                /\ -Tolerance <= SampledFor(d._id) - cr[j].time
                /\ SampledFor(d._id) - cr[j].time <= Tolerance

\* the entries of the tick's log that record a failure
FailedEntries ==
  {p \in 1..Len(tickLog) : tickLog[p].res \in {"raised", "send_failed", "failed"}}

\* C13: whatever failed for one item of a tick (a send, a label write, a
\* delete), the loop goes on: every loaded item the loop has passed was
\* evaluated in full, and the loop never skips ahead.
C13_ItemIsolation ==
  InLoop => /\ i <= Len(rows) + 1
            /\ \A k \in 1..Len(rows) : k < i => Evaluated(k)

\* a send failed for the first of two loaded items and the second one got
\* its reminder all the same
C13_Witness ==
  /\ InLoop /\ Len(rows) = 2 /\ i = 3
  /\ \E p \in FailedEntries : tickLog[p].it = rows[1]._id
  /\ \E q \in Sends(rows[2]._id, ThLabel(72)) : tickLog[q].res = "sent"

\* the positions of the tick's log where a kind of item was loaded, with
\* the given result
Loads(kind, res) ==
  {p \in 1..Len(tickLog) :
     tickLog[p].ev = "load" /\ tickLog[p].what = kind /\ tickLog[p].res = res}

\* C14: a tick whose load of one kind of item timed out still loads the
\* other kind: it is never over with one load failed and the other load
\* not even tried.
C14_PhaseScoped ==
  /\ Loads("tasks", "failed") # {} /\ pc = "idle"
       => Loads("events", "ok") \cup Loads("events", "failed") # {}
  /\ Loads("events", "failed") # {} => Loads("tasks", "ok") # {}

\* C15: however a tick fails, an unedited item is delivered a standard
\* notification at most once more per failure: with a single failure
\* between the delivery and the write of the label there is one duplicate
\* at most, and none once the label is stored.
C15_OneDuplicate ==
  \A id \in 1..MaxIds : \A label \in StdLabels :
    id \notin edits => delivered[<<id, label>>] <= 1 + (MaxFaults - budget)

\* the 72 h reminder was delivered twice, its label is stored by now, and a
\* later tick inside the window passes the item without sending
C15_Witness ==
  \E k \in Processed :
    /\ delivered[<<rows[k]._id, ThLabel(72)>>] = 2
    /\ ThLabel(72) \in Range(rows[k].reminders_sent)
    /\ 72 * HourSeconds - Tolerance <= DeadlineOf(rows[k]) - now
    /\ DeadlineOf(rows[k]) - now <= 72 * HourSeconds + Tolerance
    /\ Sends(rows[k]._id, ThLabel(72)) = {}

\* the labels of a stored document are all different
DistinctLabels(d) == Cardinality(Range(d.reminders_sent)) = Len(d.reminders_sent)

\* C16: a stored item never carries a label twice, and a label once stored
\* stays: the labels of an event never shrink, and those of a task shrink
\* only in a command step that edits its deadline and empties them.
C16_LabelsGrow ==
  /\ [](\A k \in 1..Len(tasks \o events) : DistinctLabels((tasks \o events)[k]))
  /\ [][/\ \A a \in 1..Len(events) : \A b \in 1..Len(events') :
             events[a]._id = events'[b]._id
               => Range(events[a].reminders_sent) \subseteq Range(events'[b].reminders_sent)
        /\ \A a \in 1..Len(tasks) : \A b \in 1..Len(tasks') :
             tasks[a]._id = tasks'[b]._id
               => \/ Range(tasks[a].reminders_sent) \subseteq Range(tasks'[b].reminders_sent)
                  \/ /\ tasks'[b].reminders_sent = <<>>
                     /\ tasks'[b]._id \in edits'
                     /\ tasks'[b].status = tasks[a].status
                     /\ cmdsLeft' = cmdsLeft - 1]_vars

\* a task that has collected two different labels
C16_Witness ==
  \E k \in 1..Len(tasks) :
    /\ Len(tasks[k].reminders_sent) = 2
    /\ ThLabel(72) \in Range(tasks[k].reminders_sent)
    /\ ThLabel(24) \in Range(tasks[k].reminders_sent)

\* C17: an item that is marked completed stays in the store: no step takes
\* a completed task or event out of its collection.
C17_CompletedRetained ==
  [][/\ \A a \in 1..Len(tasks) :
          tasks[a].status => \E b \in 1..Len(tasks') : tasks'[b]._id = tasks[a]._id
     /\ \A a \in 1..Len(events) :
          events[a].status => \E b \in 1..Len(events') : events'[b]._id = events[a]._id]_vars

\* the fire times of a custom-reminder list, in order
Times(cr) == [j \in 1..Len(cr) |-> cr[j].time]

\* the reminders /setreminder reported as added that the store no longer holds
LostReminders ==
  {p \in added : /\ HasDoc(tasks, p[1])
                 /\ p[2] \notin Range(Times(DocOf(tasks, p[1]).custom_reminders))}

\* the step is the sweep's evaluation of the task and holds a successful
\* sent-flag write
FlagWritten(id) ==
  /\ pc = "tasks" /\ i' = i + 1 /\ rows[i]._id = id
  /\ \E k \in (Len(tickLog) + 1)..Len(tickLog') :
       tickLog'[k].it = id /\ tickLog'[k].ev = "flag" /\ tickLog'[k].res = "ok"

\* C18: a reminder that /setreminder reported as added can be absent from
\* the stored list afterwards, and the only step that takes it out is the
\* sweep's sent-flag write: that write stores the list the tick loaded,
\* entry for entry, so the list of a task still stored then has exactly the
\* fire times of the loaded copy and every reminder appended since is gone.
C18_StaleWrite ==
  [][/\ \A id \in 1..MaxIds :
          FlagWritten(id) /\ HasDoc(tasks', id)
            => Times(DocOf(tasks', id).custom_reminders)
                 = Times(rows[i].custom_reminders)
     /\ \A p \in LostReminders' \ LostReminders :
          /\ FlagWritten(p[1])
          /\ p \in added
          /\ p[2] \notin Range(Times(rows[i].custom_reminders))]_vars

\* the task is still stored, the command's reminder is not in its list
C18_Witness ==
  \E p \in LostReminders :
    /\ pc = "idle"
    /\ DocOf(tasks, p[1]).status = FALSE
    /\ Len(DocOf(tasks, p[1]).custom_reminders) = 2

\* the documents of col' that col does not hold
Inserted(col, colNext) ==
  {colNext[b] : b \in {c \in 1..Len(colNext) :
                         \A a \in 1..Len(col) : col[a]._id # colNext[c]._id}}

\* C19: every stored event ends strictly after it starts, and a step that
\* inserts a task or an event inserts one whose deadline or start is
\* strictly after the instant of the step; at an instant that has reached
\* the deadline or start typed, nothing is inserted.
C19_CreationValidated ==
  /\ [](\A k \in 1..Len(events) : events[k].tanggal_selesai > events[k].tanggal_mulai)
  /\ [][/\ \A d \in Inserted(tasks, tasks') : d.deadline > clock
        /\ \A e \in Inserted(events, events') :
             e.tanggal_mulai > clock /\ e.tanggal_selesai > e.tanggal_mulai
        /\ clock >= LaterDeadline
             => Inserted(tasks, tasks') = {} /\ Inserted(events, events') = {}]_vars

\* an event and a task were created, and the clock has since reached the
\* instant they were created for: the same commands are now refused
C19_Witness ==
  /\ \E k \in 1..Len(events) :
       events[k].tanggal_mulai = FirstDeadline /\ events[k].tanggal_selesai = LaterDeadline
  /\ \E k \in 1..Len(tasks) : tasks[k].deadline = FirstDeadline
  /\ clock >= FirstDeadline
  /\ cmdsLeft = 0

\* C20: outside the sweep's own writes a task's custom-reminder list changes
\* in one way only: one entry is put after the existing ones, it is unsent
\* and its fire time is strictly after the instant of the step; the entries
\* before it are the stored ones, in their order and with their flags. A
\* fire time that is not after that instant therefore never enters a list.
C20_ReminderValidated ==
  [][\A a \in 1..Len(tasks) : \A b \in 1..Len(tasks') :
       /\ tasks[a]._id = tasks'[b]._id
       /\ tasks'[b].custom_reminders # tasks[a].custom_reminders
       /\ i' = i
       => LET old == tasks[a].custom_reminders
              new == tasks'[b].custom_reminders
          IN /\ Len(new) = Len(old) + 1
             /\ SubSeq(new, 1, Len(old)) = old
             /\ new[Len(new)].sent = FALSE
             /\ new[Len(new)].time > clock
             /\ new[Len(new)].created_by \in Users]_vars

\* a reminder given as a duration was accepted after the sweep had flagged
\* the first reminder of the list: it is third, unsent, one day ahead
C20_Witness ==
  \E k \in 1..Len(tasks) :
    LET cr == tasks[k].custom_reminders
    IN /\ Len(cr) = 3
       /\ cr[1].sent /\ ~cr[3].sent
       /\ cr[3].time = clock + 24 * HourSeconds
       /\ <<tasks[k]._id, cr[3].time>> \in added

\* ------------------------------------------------- identifier resolution

\* TaskListView.items_per_page
ItemsPerPage == 5

\* Two users issue one resolving command each run, in a guild or in a
\* direct message, against a store that holds two tasks or two events of
\* any owner, scope, completion state and deadline (reached or ahead), or
\* against a store of one user's tasks that fills more than a page.
ResolveUsers == {"u1", "u2"}
ResolveInstant == FirstDeadline - HourSeconds
ResolveDeadlines == {ResolveInstant, FirstDeadline, LaterDeadline}

ResolveTokens ==
  {[t |-> "num", k |-> k, s |-> <<>>] : k \in 0..(ItemsPerPage + 2)}
    \cup {[t |-> "str", k |-> 0, s |-> s] :
            s \in {<<"a">>, <<"b">>, <<"a", "a">>, <<"a", "b">>, <<"d", "d">>}}

TaskChoices(id) ==
  {[TaskDoc(id, u, g, dl) EXCEPT !.status = st] :
     u \in ResolveUsers, g \in Scopes, dl \in ResolveDeadlines, st \in BOOLEAN}

EventChoices(id) ==
  {[EventDoc(id, u, g, dl, dl + HourSeconds) EXCEPT !.status = st] :
     u \in ResolveUsers, g \in Scopes, dl \in ResolveDeadlines, st \in BOOLEAN}

\* ItemsPerPage + 1 open tasks of one user, stored latest deadline first
PagedStore ==
  [k \in 1..(ItemsPerPage + 1) |->
     TaskDoc(k, "u1", "g1", LaterDeadline - k * TickInterval)]

InitResolve ==
  /\ clock = ResolveInstant
  /\ \/ \E a \in TaskChoices(1), b \in TaskChoices(2) : tasks = <<a, b>> /\ events = <<>>
     \/ \E a \in EventChoices(1), b \in EventChoices(2) : events = <<a, b>> /\ tasks = <<>>
     \/ tasks = PagedStore /\ events = <<>>
  /\ nextId = Len(tasks) + Len(events) + 1
  /\ pc = "idle"
  /\ now = 0
  /\ rows = <<>>
  /\ i = 0
  /\ budget = MaxFaults
  /\ ticksLeft = 0
  /\ cmdsLeft = 1
  /\ edits = {}
  /\ added = {}
  /\ lastRes = NoRes
  /\ weekly = NoWeekly
  /\ render = NoRender
  /\ pager = NoPager
  /\ conv = NoConv
  /\ emitted = [k \in (1..MaxIds) \X Labels |-> 0]
  /\ delivered = [k \in (1..MaxIds) \X Labels |-> 0]
  /\ tickLog = <<>>

Ids(view) == [k \in 1..Len(view) |-> view[k]._id]

\* the resolution of one command is put on record
Observe(cmd, user, guild, token, view, id) ==
  /\ lastRes' = [cmd |-> cmd, user |-> user, guild |-> guild, token |-> token,
                 view |-> Ids(view), id |-> id, shown |-> <<>>, args |-> NoArgs]
  /\ UNCHANGED jobVars

\* the numbered entries /list shows on a page of the rows it fetched:
\* enumerate(page_tasks, start=start_idx + 1)
ListPage(view, page) ==
  LET start_idx == page * ItemsPerPage
      end_idx == IF start_idx + ItemsPerPage < Len(view)
                 THEN start_idx + ItemsPerPage ELSE Len(view)
  IN [j \in 1..(end_idx - start_idx) |->
        [number |-> start_idx + j, item |-> view[start_idx + j]]]

\* total_pages
TotalPages(view) == IF Len(view) > 0 THEN (Len(view) - 1) \div ItemsPerPage + 1 ELSE 1

\* /list: the paginated view when there are more than five tasks, else one
\* embed numbered from 1 (enumerate(active_tasks, start=1))
ListTasks(view, page) ==
  IF Len(view) > ItemsPerPage
  THEN ListPage(view, page)
  ELSE [j \in 1..Len(view) |-> [number |-> j, item |-> view[j]]]

\* /list, and the page buttons of its view; nothing is stored
ObserveList ==
  /\ lastRes = NoRes
  /\ \E user \in ResolveUsers, guild \in Scopes :
       \E view \in FetchedViews(tasks, user, guild) :
         \E page \in 0..(TotalPages(view) - 1) :
           lastRes' = [cmd |-> "list", user |-> user, guild |-> guild,
                       token |-> [t |-> "page", k |-> page, s |-> <<>>],
                       view |-> Ids(view), id |-> NotFound,
                       shown |-> ListTasks(Ids(view), page), args |-> NoArgs]
  /\ UNCHANGED <<clock, tasks, events, nextId, sweepVars, budget, ticksLeft, cmdsLeft,
                 edits, added, emitted, delivered, jobVars, tickLog>>

ObserveEdit ==
  /\ lastRes = NoRes
  /\ \E user \in ResolveUsers, guild \in Scopes, token \in ResolveTokens :
       \E view \in FetchedViews(tasks, user, guild) :
         /\ Edit(user, guild, token, "", [txt |-> "date", t |-> LaterDeadline], "", view)
         /\ Observe("edit", user, guild, token, view, Resolve(tasks, user, guild, token, view))

ObserveDone ==
  /\ lastRes = NoRes
  /\ \E user \in ResolveUsers, guild \in Scopes, token \in ResolveTokens :
       \E view \in FetchedViews(tasks, user, guild) :
         /\ Done(user, guild, token, view)
         /\ Observe("done", user, guild, token, view, ResolveDone(tasks, user, guild, token, view))

ObserveDoneEvent ==
  /\ lastRes = NoRes
  /\ \E user \in ResolveUsers, guild \in Scopes, token \in ResolveTokens :
       \E view \in FetchedViews(events, user, guild) :
         /\ DoneEvent(user, guild, token, view)
         /\ Observe("doneevent", user, guild, token, view,
                    ResolveDoneEvent(events, user, guild, token, view))

ObserveAssign ==
  /\ lastRes = NoRes
  /\ \E user \in ResolveUsers, guild \in Scopes, token \in ResolveTokens :
       \E view \in FetchedViews(tasks, user, guild) :
         /\ Assign(user, guild, token, {"u3"}, view)
         /\ Observe("assign", user, guild, token, view,
                    ResolveAssign(tasks, user, guild, token, view))

ObserveSetReminder ==
  /\ lastRes = NoRes
  /\ \E user \in ResolveUsers, guild \in Scopes, token \in ResolveTokens :
       \E view \in FetchedViews(tasks, user, guild) :
         /\ SetReminder(user, guild, token, [txt |-> "dur", t |-> 1, unit |-> "m"], view)
         /\ Observe("setreminder", user, guild, token, view,
                    ResolveSetReminder(tasks, user, guild, token, view))

NextResolve ==
  \/ ObserveList
  \/ ObserveEdit
  \/ ObserveDone
  \/ ObserveDoneEvent
  \/ ObserveAssign
  \/ ObserveSetReminder

SpecResolve == InitResolve /\ [][NextResolve]_vars

\* --------------------------------------------- a list, and a command later

\* instants at which the user comes back after /list: a minute later, when
\* the first deadline is reached, and a minute after that
LaterInstants == {ResolveInstant + TickInterval, FirstDeadline, FirstDeadline + TickInterval}

\* time passes after the list was shown; nothing is stored
TimePasses ==
  /\ lastRes.cmd = "list"
  /\ \E t \in LaterInstants : t > clock /\ clock' = t
  /\ UNCHANGED <<tasks, events, nextId, sweepVars, budget, ticksLeft, cmdsLeft,
                 edits, added, emitted, delivered, lastRes, jobVars, tickLog>>

\* the user who was shown the list issues /done with a number
DoneAfterList ==
  /\ lastRes.cmd = "list"
  /\ \E k \in 1..(ItemsPerPage + 1) :
       LET token == [t |-> "num", k |-> k, s |-> <<>>]
       IN \E view \in FetchedViews(tasks, lastRes.user, lastRes.guild) :
            /\ Done(lastRes.user, lastRes.guild, token, view)
            /\ lastRes' = [lastRes EXCEPT
                             !.cmd = "done", !.token = token, !.view = Ids(view),
                             !.id = ResolveDone(tasks, lastRes.user, lastRes.guild, token, view)]
            /\ UNCHANGED jobVars

NextLater ==
  \/ ObserveList
  \/ TimePasses
  \/ DoneAfterList

SpecLater == InitResolve /\ [][NextLater]_vars

\* ------------------------------------------------- the arguments of /edit

\* identifiers typed for /edit: two numbers, a prefix, and one that
\* matches nothing
EditTokens ==
  {[t |-> "num", k |-> 1, s |-> <<>>], [t |-> "num", k |-> ItemsPerPage + 2, s |-> <<>>],
   [t |-> "str", k |-> 0, s |-> <<"a">>], [t |-> "str", k |-> 0, s |-> <<"d", "d">>]}

\* what is typed for tanggal_deadline: nothing, malformed text, the present
\* instant, or an instant ahead
EditDeadlines == DateText({ResolveInstant, LaterDeadline}) \cup {NoText}

\* /edit with any combination of its arguments, put on record
ObserveEditArgs ==
  /\ lastRes = NoRes
  /\ \E user \in ResolveUsers, guild \in Scopes, token \in EditTokens,
        judul \in {"", "t2"}, dl \in EditDeadlines, tag \in {"", "kelompok"} :
       \E view \in FetchedViews(tasks, user, guild) :
         /\ Edit(user, guild, token, judul, dl, tag, view)
         /\ lastRes' = [cmd |-> "edit", user |-> user, guild |-> guild, token |-> token,
                        view |-> Ids(view), id |-> Resolve(tasks, user, guild, token, view),
                        shown |-> <<>>, args |-> [judul |-> judul, dl |-> dl, tag |-> tag]]
         /\ UNCHANGED jobVars

NextEdit == ObserveEditArgs

SpecEdit == InitResolve /\ [][NextEdit]_vars

\* ------------------------------------------------------- paginated lists

\* TaskListView and EventListView are the same class but for the collection
\* they fetch from; pager.kind tells them apart, pager.tasks is self.tasks
\* or self.events (the _id of each row), pager.last is the history of the
\* last click: who clicked which button on which page.

\* One user's store that fills three pages: the first ItemsPerPage + 1 items
\* are due around the first deadline, the others around the later one; all
\* deadlines differ.
EarlyItems == ItemsPerPage + 1
PagerItems == 2 * ItemsPerPage + 1
PagerDeadline(k) ==
  IF k <= EarlyItems THEN FirstDeadline - (k - 1) * TickInterval
  ELSE LaterDeadline - (k - EarlyItems - 1) * TickInterval
PagerTasks == [k \in 1..PagerItems |-> TaskDoc(k, "u1", "g1", PagerDeadline(k))]
PagerEvents ==
  [k \in 1..PagerItems |->
     EventDoc(k, "u1", "g1", PagerDeadline(k), PagerDeadline(k) + HourSeconds)]

\* .sort('deadline', 1) / .sort('tanggal_mulai', 1) of rows whose deadlines
\* all differ
RECURSIVE SortByDeadline(_)
SortByDeadline(seq) ==
  IF seq = <<>> THEN <<>>
  ELSE LET m == CHOOSE a \in 1..Len(seq) :
                  \A b \in 1..Len(seq) : DeadlineOf(seq[a]) <= DeadlineOf(seq[b])
       IN <<seq[m]>> \o SortByDeadline([k \in 1..(Len(seq) - 1) |->
                                          IF k < m THEN seq[k] ELSE seq[k + 1]])

\* the rows /list and the Refresh button fetch
Refetch(kind, user, guild) ==
  SortByDeadline(ActiveRows(IF kind = "tasks" THEN tasks ELSE events, user, guild, clock))

\* update_buttons
update_buttons(v) ==
  [v EXCEPT !.prev_disabled = (v.current_page = 0),
            !.next_disabled = (v.current_page >= v.total_pages - 1)]

\* __init__
ListView(kind, items, user, guild) ==
  update_buttons([pc |-> "open", kind |-> kind, user_id |-> user, guild_id |-> guild,
                  tasks |-> items, current_page |-> 0, total_pages |-> TotalPages(items),
                  prev_disabled |-> FALSE, next_disabled |-> FALSE, last |-> NoClick])

KeepPage(page, total) == page
\* min(self.current_page, self.total_pages - 1)
ClampPage(page, total) == IF page < total - 1 THEN page ELSE total - 1

\* the users who see the message and can click its buttons
Clickers == {"u1", "u2"}

Click(by, button) == [by |-> by, button |-> button, from |-> pager.current_page]

pagerFrame ==
  <<clock, tasks, events, nextId, sweepVars, budget, ticksLeft, cmdsLeft, edits, added,
    emitted, delivered, lastRes, weekly, conv, render, tickLog>>

\* /list or /listevent with more than five active items: the view is made
OpenList ==
  /\ pager.pc = "none"
  /\ \E kind \in {"tasks", "events"} :
       LET items == Refetch(kind, "u1", "g1")
       IN /\ Len(items) > ItemsPerPage
          /\ pager' = ListView(kind, Ids(items), "u1", "g1")
  /\ UNCHANGED pagerFrame

\* previous_button; a disabled button cannot be clicked
ClickPrev ==
  /\ pager.pc = "open" /\ ~pager.prev_disabled
  /\ \E by \in Clickers :
       pager' = IF by # pager.user_id
                THEN [pager EXCEPT !.last = Click(by, "prev")]
                ELSE update_buttons([pager EXCEPT !.current_page = @ - 1,
                                                  !.last = Click(by, "prev")])
  /\ UNCHANGED pagerFrame

\* next_button
ClickNext ==
  /\ pager.pc = "open" /\ ~pager.next_disabled
  /\ \E by \in Clickers :
       pager' = IF by # pager.user_id
                THEN [pager EXCEPT !.last = Click(by, "next")]
                ELSE update_buttons([pager EXCEPT !.current_page = @ + 1,
                                                  !.last = Click(by, "next")])
  /\ UNCHANGED pagerFrame

\* refresh_button
ClickRefresh ==
  /\ pager.pc = "open"
  /\ \E by \in Clickers :
       pager' = IF by # pager.user_id
                THEN [pager EXCEPT !.last = Click(by, "refresh")]
                ELSE LET items == Ids(Refetch(pager.kind, pager.user_id, pager.guild_id))
                     IN update_buttons(
                          [pager EXCEPT
                             !.tasks = items,
                             !.total_pages = TotalPages(items),
                             !.current_page = ClampPage(@, TotalPages(items)),
                             !.last = Click(by, "refresh")])
  /\ UNCHANGED pagerFrame

\* while the list is shown its owner completes the first item
CompleteListed ==
  /\ pager.pc = "open"
  /\ LET view == Refetch(pager.kind, pager.user_id, pager.guild_id)
         token == [t |-> "num", k |-> 1, s |-> <<>>]
     IN IF pager.kind = "tasks"
        THEN Done(pager.user_id, pager.guild_id, token, view)
        ELSE DoneEvent(pager.user_id, pager.guild_id, token, view)
  /\ UNCHANGED <<lastRes, jobVars>>

\* while the list is shown the early deadlines are reached
EarlyDeadlinesPass ==
  /\ pager.pc = "open"
  /\ clock < FirstDeadline
  /\ clock' = FirstDeadline
  /\ UNCHANGED <<tasks, events, nextId, sweepVars, budget, ticksLeft, cmdsLeft,
                 edits, added, emitted, delivered, lastRes, jobVars, tickLog>>

InitPager ==
  /\ clock = ResolveInstant
  /\ \/ tasks = PagerTasks /\ events = <<>>
     \/ events = PagerEvents /\ tasks = <<>>
  /\ nextId = PagerItems + 1
  /\ pc = "idle"
  /\ now = 0
  /\ rows = <<>>
  /\ i = 0
  /\ budget = MaxFaults
  /\ ticksLeft = 0
  /\ cmdsLeft = MaxCmds
  /\ edits = {}
  /\ added = {}
  /\ lastRes = NoRes
  /\ weekly = NoWeekly
  /\ render = NoRender
  /\ pager = NoPager
  /\ conv = NoConv
  /\ emitted = [k \in (1..MaxIds) \X Labels |-> 0]
  /\ delivered = [k \in (1..MaxIds) \X Labels |-> 0]
  /\ tickLog = <<>>

NextPager ==
  \/ OpenList
  \/ ClickPrev
  \/ ClickNext
  \/ ClickRefresh
  \/ CompleteListed
  \/ EarlyDeadlinesPass

SpecPager == InitPager /\ [][NextPager]_vars

\* ------------------------------------------------------- weekly summary

DaySeconds == 24 * HourSeconds
WeekSeconds == 7 * DaySeconds

\* DEFAULT_TZ = 'Asia/Jakarta': seven hours ahead of UTC the whole year. The
\* wall clock of that zone is counted in seconds from a Monday 00:00.
DefaultOffset == 7 * HourSeconds
\* now_utc.astimezone(ZoneInfo(DEFAULT_TZ))
ToDefault(t) == t + DefaultOffset
\* .astimezone(ZoneInfo('UTC')) of a wall-clock time of the default zone
FromDefault(l) == l - DefaultOffset
\* datetime.weekday(): 0 is Monday
Weekday(l) == (l \div DaySeconds) % 7
\* .replace(hour=0, minute=0, second=0, microsecond=0)
Midnight(l) == l - (l % DaySeconds)

\* days_since_monday, 7 when today is Monday
DaysBack(wd) == IF wd = 0 THEN 7 ELSE wd

\* last_monday .. last_saturday 23:59:59, as UTC instants
WeeklyWindow(t) ==
  LET now_local == ToDefault(t)
      last_monday == Midnight(now_local - DaysBack(Weekday(now_local)) * DaySeconds)
      last_saturday == Midnight(last_monday + 5 * DaySeconds)
                         + 23 * HourSeconds + 59 * 60 + 59
  IN [start |-> FromDefault(last_monday), end |-> FromDefault(last_saturday)]

InWeekOpenEnd(col, w) ==
  SelectSeq(col, LAMBDA d : d.deadline >= w.start /\ d.deadline < w.end)
\* tasks_col.find({'deadline': {'$gte': start_utc, '$lte': end_utc}})
InWeek(col, w) ==
  SelectSeq(col, LAMBDA d : d.deadline >= w.start /\ d.deadline <= w.end)

\* the keys of guild_tasks in insertion order; a task without guild_id is
\* passed over
RECURSIVE FirstSeen(_, _)
FirstSeen(fetched, seen) ==
  IF fetched = <<>> THEN <<>>
  ELSE LET g == Head(fetched).guild_id
       IN IF g = NoGuild \/ g \in seen
          THEN FirstSeen(Tail(fetched), seen)
          ELSE <<g>> \o FirstSeen(Tail(fetched), seen \cup {g})

\* guild_tasks
GroupByGuild(fetched) ==
  LET order == FirstSeen(fetched, {})
  IN [k \in 1..Len(order) |->
        [guild |-> order[k],
         tasks |-> SelectSeq(fetched, LAMBDA d : d.guild_id = order[k])]]

\* completed, total and len(users) of one guild's tasks
Statistics(ts) ==
  [completed |-> Cardinality({a \in 1..Len(ts) : ts[a].status}),
   total |-> Len(ts),
   users |-> Cardinality({ts[a].user_id : a \in 1..Len(ts)})]

\* how one guild's turn can go: the settings lookup or the send raises, no
\* channel is found, or the summary is sent
GuildOutcomes(guild, channels) ==
  {"lookup_raised"} \cup (IF guild \in channels THEN {"sent", "send_raised"} ELSE {"no_channel"})

\* the job starts: the window is computed and the tasks in it are fetched;
\* a failing fetch ends the run
WeeklyStart ==
  /\ weekly.pc = "idle"
  /\ LET w == WeeklyWindow(clock)
     IN \E fetch \in {"ok", "failed"} :
          weekly' = [weekly EXCEPT
                       !.pc = IF fetch = "ok" THEN "guilds" ELSE "failed",
                       !.ran = clock, !.start = w.start, !.end = w.end,
                       !.groups = IF fetch = "ok" THEN GroupByGuild(InWeek(tasks, w)) ELSE <<>>,
                       !.g = 1]
  /\ UNCHANGED <<clock, tasks, events, nextId, sweepVars, budget, ticksLeft, cmdsLeft,
                 edits, added, emitted, delivered, lastRes, conv, uiVars, tickLog>>

WeeklyGuildStop(g, n, o) == IF o = "sent" THEN g + 1 ELSE n + 1
\* for guild_id, tasks in guild_tasks.items(): continue, or the exception
\* is logged, and the loop goes on
WeeklyGuildNext(g, n, o) == g + 1

\* one guild's turn
WeeklyGuild ==
  /\ weekly.pc = "guilds" /\ weekly.g <= Len(weekly.groups)
  /\ LET grp == weekly.groups[weekly.g]
     IN \E o \in GuildOutcomes(grp.guild, weekly.channels) :
          weekly' = [weekly EXCEPT
                       !.g = WeeklyGuildNext(@, Len(weekly.groups), o),
                       !.out = Append(@, [guild |-> grp.guild, res |-> o,
                                          stats |-> IF o \in {"sent", "send_raised"}
                                                    THEN Statistics(grp.tasks)
                                                    ELSE Statistics(<<>>)])]
  /\ UNCHANGED <<clock, tasks, events, nextId, sweepVars, budget, ticksLeft, cmdsLeft,
                 edits, added, emitted, delivered, lastRes, conv, uiVars, tickLog>>

\* every guild has had its turn
WeeklyEnd ==
  /\ weekly.pc = "guilds" /\ weekly.g > Len(weekly.groups)
  /\ weekly' = [weekly EXCEPT !.pc = "done"]
  /\ UNCHANGED <<clock, tasks, events, nextId, sweepVars, budget, ticksLeft, cmdsLeft,
                 edits, added, emitted, delivered, lastRes, conv, uiVars, tickLog>>

WeeklyUsers == {"u1", "u2"}
WeeklyGuilds == {"g1", "g2"}

\* The job is looked at in the third week of the wall clock: WeekStart is
\* that week's Monday 00:00 as a UTC instant, the run instants are 03:00
\* and 20:00 of each of its days.
WeekStart == FromDefault(2 * WeekSeconds)
RunInstants ==
  {WeekStart + d * DaySeconds + h * HourSeconds : d \in 0..6, h \in {3, 20}}

\* deadlines at and around the bounds of the week before WeekStart
WeekDeadlines ==
  {WeekStart - WeekSeconds - 1, WeekStart - WeekSeconds,
   WeekStart - DaySeconds - 1, WeekStart - DaySeconds}

WeeklyChoices(id) ==
  {[TaskDoc(id, u, g, dl) EXCEPT !.status = st] :
     u \in WeeklyUsers, g \in WeeklyGuilds \cup {NoGuild}, dl \in WeekDeadlines, st \in BOOLEAN}

\* Either the job runs at any of the run instants over a store of one task
\* due on a Monday 00:00, or it runs on the Sunday evening before WeekStart
\* over a store of three tasks; a guild has a channel the job can find, or
\* has none.
InitWeekly ==
  /\ \/ /\ clock \in RunInstants
        /\ \E dl \in {WeekStart - WeekSeconds, WeekStart} :
             tasks = <<TaskDoc(1, "u1", "g1", dl)>>
     \/ /\ clock = WeekStart - DaySeconds + 20 * HourSeconds
        /\ \E a \in WeeklyChoices(1), b \in WeeklyChoices(2) :
             tasks = <<a, b, [TaskDoc(3, "u1", "g1", WeekStart - WeekSeconds) EXCEPT !.status = TRUE]>>
  /\ \E ch \in SUBSET WeeklyGuilds : weekly = [NoWeekly EXCEPT !.channels = ch]
  /\ render = NoRender
  /\ pager = NoPager
  /\ events = <<>>
  /\ nextId = Len(tasks) + 1
  /\ pc = "idle"
  /\ now = 0
  /\ rows = <<>>
  /\ i = 0
  /\ budget = MaxFaults
  /\ ticksLeft = 0
  /\ cmdsLeft = 0
  /\ edits = {}
  /\ added = {}
  /\ lastRes = NoRes
  /\ conv = NoConv
  /\ emitted = [k \in (1..MaxIds) \X Labels |-> 0]
  /\ delivered = [k \in (1..MaxIds) \X Labels |-> 0]
  /\ tickLog = <<>>

NextWeekly ==
  \/ WeeklyStart
  \/ WeeklyGuild
  \/ WeeklyEnd

SpecWeekly == InitWeekly /\ [][NextWeekly]_vars

\* --------------------------------------- weekly summary after the sweep

\* The week that starts at WeekStart: three tasks are due in it, on Monday
\* 00:00, on Tuesday 00:00 and on Friday 00:00 of the default zone.
RetainedDeadlines ==
  <<WeekStart, WeekStart + DaySeconds, WeekStart + 4 * DaySeconds>>
RetainedGuilds == <<"g1", "g1", "g2">>

\* Sunday 20:00 of that week, when the cron trigger fires
SundayRun == WeekStart + 6 * DaySeconds + 20 * HourSeconds

\* the run is looked at from Tuesday 00:00 or one second later, when the
\* Monday task is 24 hours overdue, or a second more
RetainedStarts == {WeekStart + DaySeconds, WeekStart + DaySeconds + 1}

InitRetained ==
  /\ clock \in RetainedStarts
  /\ \E st \in [1..3 -> BOOLEAN] :
       tasks = [id \in 1..3 |->
                  [TaskDoc(id, "u1", RetainedGuilds[id], RetainedDeadlines[id])
                     EXCEPT !.status = st[id]]]
  /\ \E ch \in SUBSET WeeklyGuilds : weekly = [NoWeekly EXCEPT !.channels = ch]
  /\ render = NoRender
  /\ pager = NoPager
  /\ events = <<>>
  /\ nextId = 4
  /\ pc = "idle"
  /\ now = 0
  /\ rows = <<>>
  /\ i = 0
  /\ budget = MaxFaults
  /\ ticksLeft = 1
  /\ cmdsLeft = 0
  /\ edits = {}
  /\ added = {}
  /\ lastRes = NoRes
  /\ conv = NoConv
  /\ emitted = [k \in (1..MaxIds) \X Labels |-> 0]
  /\ delivered = [k \in (1..MaxIds) \X Labels |-> 0]
  /\ tickLog = <<>>

\* the days go by until the cron trigger fires
SundayComes ==
  /\ pc = "idle"
  /\ clock < SundayRun
  /\ clock' = SundayRun
  /\ UNCHANGED <<tasks, events, nextId, sweepVars, budget, ticksLeft, cmdsLeft, edits, added,
                 lastRes, jobVars, emitted, delivered, tickLog>>

\* CronTrigger(day_of_week=6, hour=20, minute=0, timezone=DEFAULT_TZ)
SundayJob ==
  /\ clock = SundayRun
  /\ pc = "idle"
  /\ WeeklyStart

NextRetained ==
  \/ TickStart
  \/ SweepItem
  \/ LoadEvents
  \/ TickEnd
  \/ SundayComes
  \/ SundayJob
  \/ WeeklyGuild
  \/ WeeklyEnd

SpecRetained == InitRetained /\ [][NextRetained]_vars

\* ------------------------------------------------------- time normalizer

\* Timezones a user may have set: one without an offset, one with a fixed
\* offset, and one that leaves daylight-saving time at the instant FallBack,
\* its offset going from four to five hours behind UTC.
ZoneNames == {"UTC", "Asia/Jakarta", "America/New_York"}
FallBack == 10 * DaySeconds + 6 * HourSeconds

\* tzinfo.utcoffset of an instant
UtcOffset(tz, x) ==
  CASE tz = "UTC" -> 0
    [] tz = "Asia/Jakarta" -> 7 * HourSeconds
    [] tz = "America/New_York" -> IF x < FallBack THEN 0 - 4 * HourSeconds
                                  ELSE 0 - 5 * HourSeconds

\* tzinfo.utcoffset of a wall-clock time with fold = 0: a time that occurs
\* twice is taken as its first occurrence
WallOffset(tz, l) ==
  CASE tz = "UTC" -> 0
    [] tz = "Asia/Jakarta" -> 7 * HourSeconds
    [] tz = "America/New_York" -> IF l < FallBack - 4 * HourSeconds
                                  THEN 0 - 4 * HourSeconds
                                  ELSE 0 - 5 * HourSeconds

\* ensure_aware_utc: a datetime without tzinfo is taken as UTC
ensure_aware_utc(dt) ==
  IF dt.tzinfo = "none" THEN dt.wall ELSE dt.wall - WallOffset(dt.tzinfo, dt.wall)

\* deadline_utc.astimezone(ZoneInfo(tz))
ToWall(x, tz) == x + UtcOffset(tz, x)

\* format_date(dl_local) and dl_local.strftime('%H:%M'): the day and the
\* minute of the wall clock, neither its offset nor its fold
FormatText(l) == l \div 60

\* datetime.strptime(date_str, '%Y-%m-%d %H:%M')
Strptime(text) == text * 60

\* parse_deadline: dt.replace(tzinfo=tz).astimezone(ZoneInfo('UTC'))
parse_deadline(text, tz) ==
  LET dt == Strptime(text)
  IN dt - WallOffset(tz, dt)

\* stored whole-minute instants, a quarter of an hour apart, from two hours
\* before FallBack to two hours after it
TimeInputs == {FallBack + q * 15 * 60 : q \in (0 - 8)..8}

\* a stored deadline is shown to its user
Project ==
  /\ conv.pc = "stored"
  /\ conv' = [conv EXCEPT
                !.pc = "shown",
                !.text = FormatText(ToWall(ensure_aware_utc([wall |-> conv.x, tzinfo |-> "none"]),
                                           conv.tz))]
  /\ UNCHANGED <<clock, tasks, events, nextId, sweepVars, budget, ticksLeft, cmdsLeft,
                 edits, added, emitted, delivered, lastRes, weekly, uiVars, tickLog>>

\* the user types the text shown back into a command
Reparse ==
  /\ conv.pc = "shown"
  /\ conv' = [conv EXCEPT !.pc = "parsed", !.back = parse_deadline(conv.text, conv.tz)]
  /\ UNCHANGED <<clock, tasks, events, nextId, sweepVars, budget, ticksLeft, cmdsLeft,
                 edits, added, emitted, delivered, lastRes, weekly, uiVars, tickLog>>

InitTime ==
  /\ \E x \in TimeInputs, tz \in ZoneNames :
       conv = [NoConv EXCEPT !.pc = "stored", !.x = x, !.tz = tz]
  /\ clock = 0
  /\ tasks = <<>>
  /\ events = <<>>
  /\ nextId = 1
  /\ pc = "idle"
  /\ now = 0
  /\ rows = <<>>
  /\ i = 0
  /\ budget = MaxFaults
  /\ ticksLeft = 0
  /\ cmdsLeft = 0
  /\ edits = {}
  /\ added = {}
  /\ lastRes = NoRes
  /\ weekly = NoWeekly
  /\ render = NoRender
  /\ pager = NoPager
  /\ emitted = [k \in (1..MaxIds) \X Labels |-> 0]
  /\ delivered = [k \in (1..MaxIds) \X Labels |-> 0]
  /\ tickLog = <<>>

NextTime ==
  \/ Project
  \/ Reparse

SpecTime == InitTime /\ [][NextTime]_vars

\* ------------------------------------------------------ duration rendering

\* A timedelta is counted in half seconds, so that durations shorter than a
\* second exist.
TicksPerSecond == 2

\* int(delta.total_seconds()): the fraction is cut off towards zero
TotalSeconds(delta) ==
  IF delta >= 0 THEN delta \div TicksPerSecond
  ELSE 0 - ((0 - delta) \div TicksPerSecond)

\* the text 'sudah lewat'
PastText == [past |-> TRUE, parts |-> <<>>]

\* f"{n}{unit}"
Part(n, unit) == [n |-> n, unit |-> unit]

\* human_delta; the parts are joined with ' '
human_delta(delta) ==
  LET total_seconds == TotalSeconds(delta)
      days == total_seconds \div DaySeconds
      rem == total_seconds % DaySeconds
      hours == rem \div HourSeconds
      rem2 == rem % HourSeconds
      minutes == rem2 \div 60
  IN IF total_seconds < 0 THEN PastText
     ELSE [past |-> FALSE,
           parts |-> (IF days # 0 THEN <<Part(days, "d")>> ELSE <<>>)
                       \o (IF hours # 0 THEN <<Part(hours, "h")>> ELSE <<>>)
                       \o <<Part(minutes, "m")>>]

\* durations that are rendered: up to two days, two hours, 59 minutes and
\* 59.5 seconds, and negative ones from half a second to two days
DeltaInputs ==
  {((d * DaySeconds + h * HourSeconds + m * 60) * TicksPerSecond) + f :
     d \in 0..2, h \in 0..2, m \in {0, 1, 59}, f \in {0, 1, 119}}
  \cup {0 - 1, 0 - 2, 0 - 3, 0 - 60 * TicksPerSecond, 0 - 2 * DaySeconds * TicksPerSecond}

\* a handler renders a duration
Render ==
  /\ render.pc = "given"
  /\ render' = [render EXCEPT !.pc = "rendered", !.text = human_delta(render.delta)]
  /\ UNCHANGED <<clock, tasks, events, nextId, sweepVars, budget, ticksLeft, cmdsLeft,
                 edits, added, emitted, delivered, lastRes, weekly, conv, pager, tickLog>>

InitDelta ==
  /\ \E d \in DeltaInputs : render = [NoRender EXCEPT !.pc = "given", !.delta = d]
  /\ clock = 0
  /\ tasks = <<>>
  /\ events = <<>>
  /\ nextId = 1
  /\ pc = "idle"
  /\ now = 0
  /\ rows = <<>>
  /\ i = 0
  /\ budget = MaxFaults
  /\ ticksLeft = 0
  /\ cmdsLeft = 0
  /\ edits = {}
  /\ added = {}
  /\ lastRes = NoRes
  /\ weekly = NoWeekly
  /\ conv = NoConv
  /\ pager = NoPager
  /\ emitted = [k \in (1..MaxIds) \X Labels |-> 0]
  /\ delivered = [k \in (1..MaxIds) \X Labels |-> 0]
  /\ tickLog = <<>>

NextDelta == Render

SpecDelta == InitDelta /\ [][NextDelta]_vars

\* the collection a recorded command resolved in
ColOf(r, ts, es) == IF r.cmd = "doneevent" THEN es ELSE ts

\* deadline or start of the stored item with this id
WhenOf(col, id) ==
  LET d == col[CHOOSE a \in 1..Len(col) : col[a]._id = id]
  IN IF "deadline" \in DOMAIN d THEN d.deadline ELSE d.tanggal_mulai

\* the ids of the caller's filtered view: own, in scope, open, still ahead
FilteredIds(col, user, guild, t) ==
  {col[a]._id : a \in {b \in 1..Len(col) :
                         /\ col[b].user_id = user /\ col[b].guild_id = guild
                         /\ col[b].status = FALSE
                         /\ WhenOf(col, col[b]._id) > t}}

\* ids is the filtered view as a sequence: each member once, ascending
IsFilteredView(ids, col, user, guild, t) ==
  /\ Range(ids) = FilteredIds(col, user, guild, t)
  /\ \A a, b \in 1..Len(ids) : a < b => ids[a] # ids[b] /\ WhenOf(col, ids[a]) <= WhenOf(col, ids[b])

\* the stored items with this id are the only ones that differ
OnlyChanged(col, colNext, id) ==
  /\ Len(colNext) = Len(col)
  /\ \A a \in 1..Len(col) : col[a]._id # id => colNext[a] = col[a]

C22_ListingOrder ==
  [][lastRes' # lastRes /\ (lastRes'.cmd = "list" \/ lastRes'.token.t = "num")
       => LET r == lastRes'
              col == ColOf(r, tasks, events)
          IN /\ \A a, b \in 1..Len(r.view) :
                  WhenOf(col, r.view[a]) < WhenOf(col, r.view[b]) => a < b
             /\ \A j \in 1..Len(r.shown) :
                  /\ r.shown[j].number \in 1..Len(r.view)
                  /\ r.shown[j].item = r.view[r.shown[j].number]
             /\ r.cmd = "list" /\ Len(r.view) <= ItemsPerPage
                  => Len(r.shown) = Len(r.view) /\ \A j \in 1..Len(r.shown) : r.shown[j].number = j]_vars

\* /list shows the task created second as number 1: its deadline is earlier
C22_Witness ==
  /\ lastRes.cmd = "list"
  /\ lastRes.shown = <<[number |-> 1, item |-> 2], [number |-> 2, item |-> 1]>>
  /\ tasks[1]._id = 1 /\ tasks[2]._id = 2
  /\ tasks[2].deadline < tasks[1].deadline

\* C23: whatever the token (a number, a full id, the beginning of an id)
\* and whichever command resolves it, the item resolved is stored, is owned
\* by the calling user and belongs to the scope of the call; when the
\* caller owns nothing in that scope the result is NotFound.
C23_OwnScopeOnly ==
  [][lastRes' # lastRes /\ lastRes'.cmd # "list"
       => LET r == lastRes'
              col == ColOf(r, tasks, events)
              own == {a \in 1..Len(col) :
                        col[a].user_id = r.user /\ col[a].guild_id = r.guild}
          IN /\ r.id # NotFound => \E a \in own : col[a]._id = r.id
             /\ own = {} => r.id = NotFound /\ tasks' = tasks /\ events' = events]_vars

\* the full id of an open task of the other user, in the caller's guild:
\* NotFound
C23_Witness ==
  /\ lastRes.cmd = "setreminder" /\ lastRes.token.t = "str"
  /\ lastRes.token.s = <<"a", "a">> /\ lastRes.id = NotFound
  /\ Len(tasks) = 2 /\ tasks[1]._id = 1
  /\ tasks[1].user_id # lastRes.user /\ tasks[1].guild_id = lastRes.guild
  /\ ~tasks[1].status /\ tasks[1].deadline > clock

\* C24: a token that is not a number resolves inside the caller's filtered
\* view: the item found by its full id or by the beginning of its id is one
\* of the open items whose deadline or start is still ahead.
C24_InsideView ==
  lastRes.cmd \notin {"none", "list"} /\ lastRes.token.t = "str" /\ lastRes.id # NotFound
    => lastRes.id \in Range(lastRes.view)

\* C25: a token that is the beginning of the ids of several items of the
\* filtered view, and no full id, resolves to the one that comes first in
\* the view.
C25_FirstInView ==
  [][lastRes' # lastRes /\ lastRes'.cmd # "list" /\ lastRes'.token.t = "str"
       => LET r == lastRes'
              col == ColOf(r, tasks, events)
              s == r.token.s
              hits == {r.view[a] : a \in {b \in 1..Len(r.view) :
                         /\ Len(s) < Len(IdStr(r.view[b]))
                         /\ \A c \in 1..Len(s) : s[c] = IdStr(r.view[b])[c]}}
          IN Cardinality(hits) > 1
               => /\ r.id \in hits
                  /\ \A h \in hits : WhenOf(col, r.id) <= WhenOf(col, h)]_vars

\* what a task command resolves its token to, whichever command it is:
\* a number is a position of the fetched rows; a full id is that stored
\* task if it is the caller's in this scope; any shorter text is the first
\* stored open task of the caller in this scope whose id begins with it
TaskResolution(col, user, guild, token, ids) ==
  LET own == {a \in 1..Len(col) : col[a].user_id = user /\ col[a].guild_id = guild}
      begins(a) == \A c \in 1..Len(token.s) : token.s[c] = IdStr(col[a]._id)[c]
      full == {a \in own : IdStr(col[a]._id) = token.s}
      open == {a \in own : ~col[a].status /\ begins(a)}
  IN IF token.t = "num"
     THEN IF token.k \in 1..Len(ids) THEN ids[token.k] ELSE NotFound
     ELSE IF Len(token.s) = Len(IdStr(1))
     THEN IF full # {} THEN col[CHOOSE a \in full : TRUE]._id ELSE NotFound
     ELSE IF open # {} THEN col[CHOOSE a \in open : \A b \in open : a <= b]._id
     ELSE NotFound

\* C26: edit, done, assign and setreminder resolve a token alike: given the
\* store, the instant, the caller, the scope, the token and the rows the
\* store returned, the task resolved does not depend on the command; and a
\* number k in range resolves to the task that /list shows with number k,
\* on whichever page that number stands.
C26_SameResolution ==
  [][lastRes' # lastRes /\ lastRes'.cmd \in {"edit", "done", "assign", "setreminder"}
       => LET r == lastRes'
              k == r.token.k
          IN /\ r.id = TaskResolution(tasks, r.user, r.guild, r.token, r.view)
             /\ r.token.t = "num"
                  => /\ \A page \in 0..(TotalPages(r.view) - 1) :
                          \A j \in 1..Len(ListTasks(r.view, page)) :
                            ListTasks(r.view, page)[j].number = k
                              => ListTasks(r.view, page)[j].item = r.id
                     /\ k \in 1..Len(r.view)
                          => \E page \in 0..(TotalPages(r.view) - 1) :
                               \E j \in 1..Len(ListTasks(r.view, page)) :
                                 ListTasks(r.view, page)[j].number = k]_vars

\* /assign with the number of the first entry of the list's second page
C26_Witness ==
  /\ lastRes.cmd = "assign" /\ lastRes.token.t = "num"
  /\ lastRes.token.k = ItemsPerPage + 1
  /\ Len(lastRes.view) = ItemsPerPage + 1
  /\ lastRes.id = lastRes.view[ItemsPerPage + 1]
  /\ \E a \in 1..Len(tasks) : tasks[a]._id = lastRes.id /\ tasks[a].assigned_users # {}

CountedTasks(guild) ==
  {a \in 1..Len(tasks) :
     /\ tasks[a].guild_id = guild
     /\ weekly.start <= tasks[a].deadline /\ tasks[a].deadline <= weekly.end}

\* the summaries handed to a channel
Summaries == {k \in 1..Len(weekly.out) : weekly.out[k].res \in {"sent", "send_raised"}}

\* C28: a summary's total is the number of stored tasks of its guild whose
\* deadline is in the window, bounds included, completed or not; completed
\* is the number of the completed ones among them, so 0 <= completed <=
\* total, and total >= 1; the contributors are their distinct owners; no
\* summary is made for the tasks without a guild.
C28_Statistics ==
  \A k \in Summaries :
    LET e == weekly.out[k]
        counted == CountedTasks(e.guild)
    IN /\ e.guild # NoGuild
       /\ e.stats.total = Cardinality(counted)
       /\ e.stats.completed = Cardinality({a \in counted : tasks[a].status = TRUE})
       /\ e.stats.users = Cardinality({tasks[a].user_id : a \in counted})
       /\ 0 <= e.stats.completed /\ e.stats.completed <= e.stats.total
       /\ e.stats.total >= 1

\* three tasks of one guild, two owners, deadlines on both bounds of the
\* window, two of them completed
C28_Witness ==
  \E k \in Summaries :
    /\ weekly.out[k].res = "sent"
    /\ weekly.out[k].stats = [completed |-> 2, total |-> 3, users |-> 2]
    /\ tasks[1].deadline = weekly.start /\ tasks[2].deadline = weekly.end

\* the turns a guild had in the run
Turns(guild) == {k \in 1..Len(weekly.out) : weekly.out[k].guild = guild}

\* C29: when a run that fetched the tasks is over, every guild with a task
\* in the window has had exactly one turn and no other guild any, whatever
\* happened in the turns before it; a summary was handed to a channel in
\* that turn if and only if the guild's channel was found, and a guild
\* without a channel, or one whose send raised, got no summary delivered.
C29_OnePerScope ==
  weekly.pc = "done"
    => \A guild \in WeeklyGuilds \cup {NoGuild} :
         /\ Cardinality(Turns(guild))
              = (IF guild # NoGuild /\ CountedTasks(guild) # {} THEN 1 ELSE 0)
         /\ \A k \in Turns(guild) :
              /\ k \in Summaries => guild \in weekly.channels
              /\ guild \in weekly.channels /\ weekly.out[k].res # "lookup_raised"
                   => k \in Summaries
              /\ guild \notin weekly.channels => weekly.out[k].res \in {"no_channel", "lookup_raised"}

\* the send to the first guild raised, and the second guild still got its
\* summary
C29_Witness ==
  /\ weekly.pc = "done" /\ Len(weekly.out) = 2
  /\ weekly.out[1].res = "send_raised"
  /\ weekly.out[2].res = "sent"
  /\ weekly.out[1].guild # weekly.out[2].guild

\* C30: a stored whole-minute instant, shown as wall-clock text in a
\* timezone and parsed again in the same timezone, is the instant it was,
\* also in the hour that the wall clock passes through twice.
C30_RoundTrip ==
  conv.pc = "parsed" => conv.back = conv.x

\* whole days, hours and minutes of a non-negative duration, seconds dropped
WholeMinutes(delta) == delta \div (60 * TicksPerSecond)
WholeHours(delta) == delta \div (HourSeconds * TicksPerSecond)
WholeDays(delta) == delta \div (DaySeconds * TicksPerSecond)

\* the units shown for a non-negative duration: the zero units in front of
\* the first non-zero one are left out, the minutes are always there
ShownUnits(delta) ==
  (IF WholeDays(delta) > 0 THEN <<"d">> ELSE <<>>)
    \o (IF WholeHours(delta) > 0 THEN <<"h">> ELSE <<>>)
    \o <<"m">>

UnitValue(delta, unit) ==
  CASE unit = "d" -> WholeDays(delta)
    [] unit = "h" -> WholeHours(delta) - 24 * WholeDays(delta)
    [] unit = "m" -> WholeMinutes(delta) - 60 * WholeHours(delta)

\* C31: a non-negative duration is rendered as its whole days, hours and
\* minutes, without the zero units in front and with the minutes always
\* there; every negative duration is rendered as the already-past text.
C31_Rendering ==
  render.pc = "rendered"
    => IF render.delta < 0
       THEN render.text.past
       ELSE /\ ~render.text.past
            /\ Len(render.text.parts) = Len(ShownUnits(render.delta))
            /\ \A k \in 1..Len(render.text.parts) :
                 /\ render.text.parts[k].unit = ShownUnits(render.delta)[k]
                 /\ render.text.parts[k].n = UnitValue(render.delta, render.text.parts[k].unit)

\* the loop body is about to run for a task that was loaded with a deadline
\* other than the one now stored: an edit came in after the load
StaleDeadline(id) ==
  /\ pc = "tasks" /\ i <= Len(rows)
  /\ rows[i]._id = id
  /\ HasDoc(tasks, id)
  /\ DocOf(tasks, id).deadline # rows[i].deadline

\* C32: when a deadline edit falls between the load of a tick and the loop
\* body for that task, the loop body adds no label to the task, so after
\* both no label produced by the old deadline is stored.
C32_NoStaleLabel ==
  [][\A id \in 1..MaxIds :
       StaleDeadline(id) /\ i' # i /\ HasDoc(tasks', id)
         => Range(DocOf(tasks', id).reminders_sent)
              \subseteq Range(DocOf(tasks, id).reminders_sent)]_vars

\* the sent markers stored on a document: its standard labels, and the
\* labels of its custom reminders that are flagged sent
SentMarkers(d) ==
  Range(d.reminders_sent)
    \cup {CustomLabel(j) : j \in {k \in 1..Len(d.custom_reminders) : d.custom_reminders[k].sent}}

\* C33: a standard label is stored, and a custom reminder is flagged sent,
\* only if the message for it reached a channel; so an item without a guild
\* or without a channel gets no marker.
C33_MarkedOnlyIfDelivered ==
  \A col \in {tasks, events} : \A k \in 1..Len(col) :
    \A label \in SentMarkers(col[k]) : delivered[<<col[k]._id, label>>] > 0

\* the tasks of a guild that are due in the week that starts at WeekStart
DueInWeek(guild) ==
  {id \in 1..3 :
     /\ RetainedGuilds[id] = guild
     /\ RetainedDeadlines[id] >= WeekStart
     /\ RetainedDeadlines[id] < WeekStart + 6 * DaySeconds}

\* C34: when the Sunday job has run, the total of every guild counts each
\* of the guild's tasks that were due from Monday to Saturday, completed or
\* not, also those that were more than 24 hours overdue before the job ran.
C34_CountsOverdue ==
  weekly.pc = "done" /\ weekly.start = WeekStart
    => \A guild \in WeeklyGuilds :
         DueInWeek(guild) # {}
           => \E k \in 1..Len(weekly.out) :
                /\ weekly.out[k].guild = guild
                /\ weekly.out[k].res \in {"sent", "send_raised"}
                     => weekly.out[k].stats.total = Cardinality(DueInWeek(guild))

\* C35: the sweep removes an event only when the end of the event has
\* passed, so an event that lasts longer than 24 hours is not removed while
\* it is in progress.
C35_EventKeptUntilEnd ==
  [][\A k \in 1..Len(events) :
       pc = "events" /\ i' # i /\ ~HasDoc(events', events[k]._id)
         => events[k].tanggal_selesai <= clock]_vars

\* the tick in progress loaded the item while it was still open
LoadedOpen(id) ==
  \E k \in 1..Len(rows) : rows[k]._id = id /\ ~rows[k].status

\* the completed items of a collection that no tick in progress loaded as
\* open are, after a step of the sweep, stored as they were, and nothing
\* more was emitted for them
CompletedSilent(col, colNext) ==
  \A k \in 1..Len(col) :
    col[k].status /\ ~LoadedOpen(col[k]._id) /\ (pc' # pc \/ i' # i)
      => /\ HasDoc(colNext, col[k]._id)
         /\ DocOf(colNext, col[k]._id) = col[k]
         /\ \A label \in Labels :
              emitted'[<<col[k]._id, label>>] = emitted[<<col[k]._id, label>>]

\* C36: once an item is completed, a tick that starts afterwards emits
\* nothing for it, adds no label to it, flags none of its custom
\* reminders and does not delete it.
C36_CompletedSilent ==
  [][CompletedSilent(tasks, tasks') /\ CompletedSilent(events, events')]_vars

\* a tick that started after the task was completed has gone through the
\* tasks at an instant at which a custom reminder of the task is to fire
C36_Witness ==
  /\ pc = "tasks" /\ i > Len(rows)
  /\ \E k \in 1..Len(tasks) :
       /\ tasks[k].status
       /\ ~LoadedOpen(tasks[k]._id)
       /\ \E j \in 1..Len(tasks[k].custom_reminders) :
            /\ ~tasks[k].custom_reminders[j].sent
            /\ now - tasks[k].custom_reminders[j].time \in (0 - Tolerance)..Tolerance

\* C37: a number typed after a list, with nothing created, edited,
\* completed or deleted in between, resolves to the item the list showed
\* under that number, however much later the command comes (items with
\* the same deadline may change places).
C37_PositionStable ==
  lastRes.cmd = "done" /\ lastRes.shown # <<>>
    => \A j \in 1..Len(lastRes.shown) :
         lastRes.shown[j].number = lastRes.token.k
           => \/ lastRes.id = lastRes.shown[j].item
              \/ /\ lastRes.id # NotFound
                 /\ WhenOf(tasks, lastRes.id) = WhenOf(tasks, lastRes.shown[j].item)

\* an /edit on record that must fail at the instant t: no field given, no
\* task resolved, or a deadline that cannot be parsed or is not after t
FailedEdit(r, t) ==
  \/ r.args.judul = "" /\ r.args.dl.txt = "none" /\ r.args.tag = ""
  \/ r.id = NotFound
  \/ r.args.dl.txt = "bad"
  \/ r.args.dl.txt = "date" /\ r.args.dl.t <= t

\* C38: an /edit that fails leaves every task as it was stored, also when
\* valid fields came with the invalid one.
C38_FailedEditNoChange ==
  [][lastRes' # lastRes /\ lastRes'.cmd = "edit" /\ FailedEdit(lastRes', clock)
       => tasks' = tasks]_vars

\* an /edit failed on its deadline, for a task that was found and with a
\* new title given
C38_Witness ==
  /\ lastRes.cmd = "edit"
  /\ lastRes.id # NotFound
  /\ lastRes.args.judul # ""
  /\ lastRes.args.dl.txt = "date" /\ lastRes.args.dl.t <= clock
  /\ DocOf(tasks, lastRes.id).judul # lastRes.args.judul

\* max(1, ceil(n / 5))
PagesFor(n) ==
  IF n = 0 THEN 1 ELSE CHOOSE p \in 1..n : 5 * (p - 1) < n /\ n <= 5 * p

\* the page and the buttons of an open list are consistent with its items
PagerConsistent ==
  pager.pc = "open"
    => /\ pager.total_pages = PagesFor(Len(pager.tasks))
       /\ 0 <= pager.current_page /\ pager.current_page <= pager.total_pages - 1
       /\ pager.prev_disabled <=> pager.current_page = 0
       /\ pager.next_disabled <=> pager.current_page = pager.total_pages - 1

\* a click by somebody else changes neither the page nor the items
ForeignClickIgnored ==
  pager.pc = "open" /\ pager' # pager /\ pager'.last.by # pager.user_id
    => /\ pager'.current_page = pager.current_page
       /\ pager'.tasks = pager.tasks

\* C40: whatever the owner clicks (Prev and Next only while enabled), the
\* page stays within 0 .. total_pages - 1 with total_pages = max(1,
\* ceil(items / 5)), Prev is disabled exactly on the first page and Next
\* exactly on the last; a click by any other user changes neither the page
\* nor the item list.
C40_Pagination == []PagerConsistent /\ [][ForeignClickIgnored]_vars

\* the owner refreshed a list on a page that is no longer there, and
\* somebody else has clicked since
C40_Witness ==
  /\ pager.pc = "open"
  /\ pager.total_pages = 1
  /\ Len(pager.tasks) < PagerItems - ItemsPerPage
  /\ pager.last.by # pager.user_id
  /\ pager.last.button = "refresh"

====
